---- MODULE Spec2Model ----
(***************************************************************************)
(* The ORKG reproducibility-score tools: the balanced collector            *)
(* (collect_orkg_data.py) and the pillar scorer and aggregator             *)
(* (evaluate_reproducibility.py).                                          *)
(*                                                                         *)
(* Representation of Python values.                                        *)
(*   - A str that the code inspects (labels, values, ids, repository and   *)
(*     ontology names) is a sequence of one-character strings, so that     *)
(*     startswith, lower, strip, "in" and the regular expressions are      *)
(*     computed character by character.                                    *)
(*     The characters are those of U+0000..U+00FF.                         *)
(*   - None is the one-element sequence <<"None">>, whose element is no    *)
(*     character, so it differs from every str, the empty one included.    *)
(*   - A dict is a function on its keys; d.get(k, default) is Get.         *)
(*   - The internal tags (property_type, the five categories, the object   *)
(*     class) are TLA+ strings: the code only compares them.               *)
(*   - A float score is 0 or 100; a mean is the double nearest to a        *)
(*     fraction (see Floats).                                              *)
(***************************************************************************)
EXTENDS Integers, Sequences, FiniteSets, Bags, TLC

None == <<"None">>

EmptyDict == <<>>

Get(d, k, default) == IF k \in DOMAIN d THEN d[k] ELSE default

DIGIT_CHARS == <<"0", "1", "2", "3", "4", "5", "6", "7", "8", "9">>

\* str(n) of a natural number, as an f-string formats it.
RECURSIVE str_of_int(_)
str_of_int(n) ==
    IF n < 10
    THEN <<DIGIT_CHARS[n + 1]>>
    ELSE str_of_int(n \div 10) \o <<DIGIT_CHARS[(n % 10) + 1]>>

\* str(x) of an Optional[str]: str(None) is 'None'.
str_of(x) == IF x = None THEN <<"N", "o", "n", "e">> ELSE x

\* Python truthiness of an Optional[str]: None and "" are false.
Truthy(s) == s # None /\ s # <<>>

Min(S) == CHOOSE x \in S : \A y \in S : x <= y

\* The cased letters of U+0000..U+00FF and their lower case.
LOWER ==
    LET cased ==
            << "A", "B", "C", "D", "E", "F", "G", "H", "I", "J", "K", "L", "M",
               "N", "O", "P", "Q", "R", "S", "T", "U", "V", "W", "X", "Y", "Z",
               "À", "Á", "Â", "Ã", "Ä", "Å", "Æ", "Ç", "È", "É", "Ê", "Ë", "Ì",
               "Í", "Î", "Ï", "Ð", "Ñ", "Ò", "Ó", "Ô", "Õ", "Ö", "Ø", "Ù", "Ú",
               "Û", "Ü", "Ý", "Þ" >>
        lowered ==
            << "a", "b", "c", "d", "e", "f", "g", "h", "i", "j", "k", "l", "m",
               "n", "o", "p", "q", "r", "s", "t", "u", "v", "w", "x", "y", "z",
               "à", "á", "â", "ã", "ä", "å", "æ", "ç", "è", "é", "ê", "ë", "ì",
               "í", "î", "ï", "ð", "ñ", "ò", "ó", "ô", "õ", "ö", "ø", "ù", "ú",
               "û", "ü", "ý", "þ" >>
    IN  [c \in {cased[k] : k \in 1..Len(cased)} |->
            lowered[CHOOSE k \in 1..Len(cased) : cased[k] = c]]

lower_char(c) == IF c \in DOMAIN LOWER THEN LOWER[c] ELSE c

\* str.lower()
lower(s) == [i \in 1..Len(s) |-> lower_char(s[i])]

\* str.startswith(prefix)
startswith(s, prefix) ==
    Len(s) >= Len(prefix) /\ SubSeq(s, 1, Len(prefix)) = prefix

\* Python's "sub in s"
contains(s, sub) ==
    \E i \in 1..(Len(s) - Len(sub) + 1) : SubSeq(s, i, i + Len(sub) - 1) = sub

\* The characters \s of a regular expression and of str.strip(): those of
\* ASCII, then U+000B, U+001C to U+001F, U+0085 and U+00A0.
WHITESPACE ==
    {" ", "\t", "\n", "\r", "\f",
     "", "", "", "", "", "", " "}

\* The characters \d of a regular expression.
DIGITS == {"0", "1", "2", "3", "4", "5", "6", "7", "8", "9"}

HTTP == <<"h", "t", "t", "p", ":", "/", "/">>

HTTPS == <<"h", "t", "t", "p", "s", ":", "/", "/">>

DOT_GIT == <<".", "g", "i", "t">>

ZENODO == <<"z", "e", "n", "o", "d", "o">>

(***************************************************************************)
(* REPO_PATTERNS.  Each regular expression of the list is a literal (with  *)
(* every "." escaped) followed by its groups, of one of two shapes:        *)
(*   "path":   lit ([^/]+) / ([^/\s\?#]+)                                  *)
(*   "digits": lit (\d+)                                                   *)
(***************************************************************************)
REPO_PATTERNS ==
    << [lit |-> <<"g", "i", "t", "h", "u", "b", ".", "c", "o", "m", "/">>,
        shape |-> "path",
        repo_type |-> <<"g", "i", "t", "h", "u", "b">>],
       [lit |-> <<"g", "i", "t", "l", "a", "b", ".", "c", "o", "m", "/">>,
        shape |-> "path",
        repo_type |-> <<"g", "i", "t", "l", "a", "b">>],
       [lit |-> <<"b", "i", "t", "b", "u", "c", "k", "e", "t", ".", "o", "r", "g", "/">>,
        shape |-> "path",
        repo_type |-> <<"b", "i", "t", "b", "u", "c", "k", "e", "t">>],
       [lit |-> <<"z", "e", "n", "o", "d", "o", ".", "o", "r", "g", "/", "r", "e", "c", "o", "r", "d", "/">>,
        shape |-> "digits",
        repo_type |-> <<"z", "e", "n", "o", "d", "o">>],
       [lit |-> <<"d", "o", "i", ".", "o", "r", "g", "/", "1", "0", ".", "5", "2", "8", "1", "/", "z", "e", "n", "o", "d", "o", ".">>,
        shape |-> "digits",
        repo_type |-> <<"z", "e", "n", "o", "d", "o">>],
       [lit |-> <<"h", "u", "g", "g", "i", "n", "g", "f", "a", "c", "e", ".", "c", "o", "/">>,
        shape |-> "path",
        repo_type |-> <<"h", "u", "g", "g", "i", "n", "g", "f", "a", "c", "e">>] >>

ONTOLOGY_PREFIXES ==
    << <<<<"w", "i", "k", "i", "d", "a", "t", "a", ":">>,
         <<"w", "i", "k", "i", "d", "a", "t", "a">>>>,
       <<<<"w", "d", ":">>,
         <<"w", "i", "k", "i", "d", "a", "t", "a">>>>,
       <<<<"h", "t", "t", "p", ":", "/", "/", "w", "w", "w", ".", "w", "i", "k", "i", "d", "a", "t", "a", ".", "o", "r", "g", "/">>,
         <<"w", "i", "k", "i", "d", "a", "t", "a">>>>,
       <<<<"h", "t", "t", "p", "s", ":", "/", "/", "w", "w", "w", ".", "w", "i", "k", "i", "d", "a", "t", "a", ".", "o", "r", "g", "/">>,
         <<"w", "i", "k", "i", "d", "a", "t", "a">>>>,
       <<<<"h", "t", "t", "p", ":", "/", "/", "p", "u", "r", "l", ".", "o", "r", "g", "/">>,
         <<"p", "u", "r", "l">>>>,
       <<<<"h", "t", "t", "p", "s", ":", "/", "/", "p", "u", "r", "l", ".", "o", "r", "g", "/">>,
         <<"p", "u", "r", "l">>>>,
       <<<<"h", "t", "t", "p", ":", "/", "/", "w", "w", "w", ".", "w", "3", ".", "o", "r", "g", "/">>,
         <<"w", "3">>>>,
       <<<<"h", "t", "t", "p", "s", ":", "/", "/", "w", "w", "w", ".", "w", "3", ".", "o", "r", "g", "/">>,
         <<"w", "3">>>>,
       <<<<"h", "t", "t", "p", ":", "/", "/", "s", "c", "h", "e", "m", "a", ".", "o", "r", "g", "/">>,
         <<"s", "c", "h", "e", "m", "a", ".", "o", "r", "g">>>>,
       <<<<"h", "t", "t", "p", "s", ":", "/", "/", "s", "c", "h", "e", "m", "a", ".", "o", "r", "g", "/">>,
         <<"s", "c", "h", "e", "m", "a", ".", "o", "r", "g">>>>,
       <<<<"h", "t", "t", "p", ":", "/", "/", "d", "b", "p", "e", "d", "i", "a", ".", "o", "r", "g", "/">>,
         <<"d", "b", "p", "e", "d", "i", "a">>>>,
       <<<<"h", "t", "t", "p", "s", ":", "/", "/", "d", "b", "p", "e", "d", "i", "a", ".", "o", "r", "g", "/">>,
         <<"d", "b", "p", "e", "d", "i", "a">>>>,
       <<<<"d", "o", "i", ":">>,
         <<"d", "o", "i">>>>,
       <<<<"o", "r", "c", "i", "d", ":">>,
         <<"o", "r", "c", "i", "d">>>> >>

REPRO_KEYWORDS ==
    << <<"s", "o", "u", "r", "c", "e", " ", "c", "o", "d", "e">>,
       <<"c", "o", "d", "e">>,
       <<"i", "m", "p", "l", "e", "m", "e", "n", "t", "a", "t", "i", "o", "n">>,
       <<"r", "e", "p", "o", "s", "i", "t", "o", "r", "y">>,
       <<"g", "i", "t", "h", "u", "b">>,
       <<"d", "a", "t", "a", "s", "e", "t">>,
       <<"d", "a", "t", "a">>,
       <<"b", "e", "n", "c", "h", "m", "a", "r", "k">>,
       <<"m", "o", "d", "e", "l">>,
       <<"m", "e", "t", "h", "o", "d">>,
       <<"u", "r", "l">>,
       <<"d", "o", "w", "n", "l", "o", "a", "d">>,
       <<"l", "i", "c", "e", "n", "s", "e">>,
       <<"s", "o", "f", "t", "w", "a", "r", "e">>,
       <<"s", "c", "r", "i", "p", "t">>,
       <<"n", "o", "t", "e", "b", "o", "o", "k">>,
       <<"f", "r", "a", "m", "e", "w", "o", "r", "k">>,
       <<"l", "i", "b", "r", "a", "r", "y">>,
       <<"t", "o", "o", "l">>,
       <<"a", "p", "p", "r", "o", "a", "c", "h">>,
       <<"t", "e", "c", "h", "n", "i", "q", "u", "e">>,
       <<"a", "l", "g", "o", "r", "i", "t", "h", "m">> >>

\* The characters that end the second group of a "path" pattern: [^/\s\?#].
NAME_STOP == {"/", "?", "#"} \cup WHITESPACE

\* The index just past the longest run of s, from j on, of characters not in stop.
RunNotIn(s, j, stop) ==
    CHOOSE k \in j..(Len(s) + 1) :
        /\ \A m \in j..(k - 1) : s[m] \notin stop
        /\ k = Len(s) + 1 \/ s[k] \in stop

\* The index just past the longest run of s, from j on, of characters in set.
RunIn(s, j, set) ==
    CHOOSE k \in j..(Len(s) + 1) :
        /\ \A m \in j..(k - 1) : s[m] \in set
        /\ k = Len(s) + 1 \/ s[k] \notin set

\* Whether the pattern matches url starting at index i (re.IGNORECASE
\* lower-cases the literal part; the groups are greedy, and no shorter first
\* group can be followed by "/").
match_at(url, pat, i) ==
    LET j == i + Len(pat.lit)
    IN  /\ j - 1 <= Len(url)
        /\ lower(SubSeq(url, i, j - 1)) = pat.lit
        /\ IF pat.shape = "path"
           THEN LET k == RunNotIn(url, j, {"/"})
                IN  /\ k > j
                    /\ k <= Len(url)
                    /\ RunNotIn(url, k + 1, NAME_STOP) > k + 1
           ELSE RunIn(url, j, DIGITS) > j

\* match.group(1), match.group(2) of the match starting at index i.
match_groups(url, pat, i) ==
    LET j == i + Len(pat.lit)
    IN  IF pat.shape = "path"
        THEN LET k == RunNotIn(url, j, {"/"})
             IN  << SubSeq(url, j, k - 1),
                    SubSeq(url, k + 1, RunNotIn(url, k + 1, NAME_STOP) - 1) >>
        ELSE << SubSeq(url, j, RunIn(url, j, DIGITS) - 1) >>

\* re.search(pattern, url, re.IGNORECASE): the leftmost match, as its groups,
\* or None.
re_search(url, pat) ==
    LET starts == {i \in 1..Len(url) : match_at(url, pat, i)}
    IN  IF starts = {} THEN None ELSE match_groups(url, pat, Min(starts))

\* re.sub(r'\.git$', '', name), for a name that holds no line break.
strip_dot_git(name) ==
    IF Len(name) >= 4 /\ SubSeq(name, Len(name) - 3, Len(name)) = DOT_GIT
    THEN SubSeq(name, 1, Len(name) - 4)
    ELSE name

extract_repo_info(url) ==
    IF ~Truthy(url)
    THEN None
    ELSE LET hits == {n \in 1..Len(REPO_PATTERNS) :
                         \E i \in 1..Len(url) : match_at(url, REPO_PATTERNS[n], i)}
         IN  IF hits = {}
             THEN None
             ELSE LET pat == REPO_PATTERNS[Min(hits)]
                      groups == re_search(url, pat)
                  IN  IF pat.repo_type = ZENODO
                      THEN << pat.repo_type, ZENODO, groups[1] >>
                      ELSE << pat.repo_type, groups[1], strip_dot_git(groups[2]) >>

get_ontology_source(obj_id, value) ==
    LET hits == {n \in 1..Len(ONTOLOGY_PREFIXES) :
                     \/ contains(lower(obj_id), lower(ONTOLOGY_PREFIXES[n][1]))
                     \/ contains(lower(value), lower(ONTOLOGY_PREFIXES[n][1]))}
    IN  IF hits = {} THEN None ELSE ONTOLOGY_PREFIXES[Min(hits)][2]

is_repro_relevant(label) ==
    \E n \in 1..Len(REPRO_KEYWORDS) : contains(lower(label), REPRO_KEYWORDS[n])

\* Mutant: the object class is looked at before the value.
prop_type_resource_first(is_url, obj_class) ==
    IF obj_class = "resource" THEN "resource"
    ELSE IF is_url THEN "url"
    ELSE "literal"

\* The if / elif / else of process_property that determines the type.
prop_type_of(is_url, obj_class) ==
    IF is_url THEN "url"
    ELSE IF obj_class = "resource" THEN "resource"
    ELSE "literal"

\* Mutant: the ontology prefixes are looked up for every property.
onto_source_of_every_type(prop_type, obj_id, value) ==
    get_ontology_source(obj_id, value)

\* onto_source: get_ontology_source in the resource branch, None in the others.
onto_source_of(prop_type, obj_id, value) ==
    IF prop_type = "resource"
    THEN get_ontology_source(obj_id, value)
    ELSE None

process_property(statement) ==
    LET pred == Get(statement, "predicate", EmptyDict)
        obj == Get(statement, "object", EmptyDict)
        pred_label == Get(pred, "label", <<>>)
        value == str_of(Get(obj, "label", <<>>))
        obj_id == str_of(Get(obj, "id", <<>>))
        obj_class == Get(obj, "_class", "literal")
        is_url == startswith(value, HTTP) \/ startswith(value, HTTPS)
        prop_type == prop_type_of(is_url, obj_class)
        repo_info == IF is_url THEN extract_repo_info(value) ELSE None
        is_repo == IF is_url THEN repo_info # None ELSE FALSE
        onto_source == onto_source_of(prop_type, obj_id, value)
    IN  [ predicate_id |-> Get(pred, "id", None),
          predicate_label |-> pred_label,
          object_id |-> obj_id,
          object_class |-> obj_class,
          property_type |-> prop_type,
          value |-> value,
          is_url |-> is_url,
          is_repo_url |-> is_repo,
          repo_type |-> IF repo_info # None THEN repo_info[1] ELSE None,
          repo_owner |-> IF repo_info # None THEN repo_info[2] ELSE None,
          repo_name |-> IF repo_info # None THEN repo_info[3] ELSE None,
          is_resource |-> prop_type = "resource",
          is_ontology_linked |-> onto_source # None,
          ontology_source |-> onto_source,
          is_literal |-> prop_type = "literal",
          reproducibility_relevant |-> is_repro_relevant(pred_label) ]

get_property_category(prop) ==
    IF prop["property_type"] = "url"
    THEN IF prop["is_repo_url"] THEN "url_repo" ELSE "url_other"
    ELSE IF prop["property_type"] = "resource"
    THEN IF prop["is_ontology_linked"] THEN "resource_onto" ELSE "resource_internal"
    ELSE "literal"

CATEGORIES == {"url_repo", "url_other", "resource_onto", "resource_internal", "literal"}

ZERO_COUNTS == [cat \in CATEGORIES |-> 0]

RECURSIVE count_contribution_types(_)
count_contribution_types(repro_props) ==
    IF repro_props = <<>>
    THEN ZERO_COUNTS
    ELSE LET n == Len(repro_props)
             counts == count_contribution_types(SubSeq(repro_props, 1, n - 1))
             cat == get_property_category(repro_props[n])
         IN  [counts EXCEPT ![cat] = @ + 1]

is_balanced(type_counts, min_per_type) ==
    \A t \in DOMAIN type_counts : type_counts[t] >= min_per_type

get_needed_types(type_counts, min_per_type) ==
    {t \in DOMAIN type_counts : type_counts[t] < min_per_type}

\* Mutant: a property of any type helps, needed or not.
contribution_helps_with_any_type(contrib_types, type_counts, min_per_type) ==
    \E t \in DOMAIN type_counts : Get(contrib_types, t, 0) > 0

contribution_helps_balance(contrib_types, type_counts, min_per_type) ==
    \E t \in get_needed_types(type_counts, min_per_type) :
        Get(contrib_types, t, 0) > 0

(***************************************************************************)
(* The paper source.  A statement is the dict the ORKG API returns for it. *)
(* The collector reads a page paper by paper and a paper contribution by   *)
(* contribution and never looks ahead, so the model draws the number of    *)
(* papers of a page when the page is fetched, the number of contributions  *)
(* of a paper when the loop reaches the paper, and the statement bundle of *)
(* a contribution when it is requested.                                    *)
(***************************************************************************)
StmtLiteral ==
    [predicate |-> [id |-> <<"P", "1">>, label |-> <<"m", "e", "t", "h", "o", "d">>],
     object |-> [id |-> <<"L", "1">>, label |-> <<"v", "1", ".", "0">>, _class |-> "literal"]]

StmtIrrelevant ==
    [predicate |-> [id |-> <<"P", "1">>, label |-> <<"r", "e", "s", "u", "l", "t">>],
     object |-> [id |-> <<"L", "2">>, label |-> <<"4", "2">>, _class |-> "literal"]]

StmtRepoUrl ==
    [predicate |-> [id |-> <<"P", "1">>, label |-> <<"c", "o", "d", "e">>],
     object |-> [id |-> <<"L", "3">>, label |-> <<"h", "t", "t", "p", "s", ":", "/", "/", "g", "i", "t", "h", "u", "b", ".", "c", "o", "m", "/", "o", "/", "r", ".", "g", "i", "t">>, _class |-> "literal"]]

StmtOtherUrl ==
    [predicate |-> [id |-> <<"P", "1">>, label |-> <<"U", "R", "L">>],
     object |-> [id |-> <<"R", "4">>, label |-> <<"h", "t", "t", "p", ":", "/", "/", "x", ".", "o", "r", "g">>, _class |-> "resource"]]

StmtOntoResource ==
    [predicate |-> [id |-> <<"P", "1">>, label |-> <<"d", "a", "t", "a">>],
     object |-> [id |-> <<"w", "d", ":", "Q", "1">>, label |-> <<"Q", "1">>, _class |-> "resource"]]

StmtInternalResource ==
    [predicate |-> [id |-> <<"P", "1">>, label |-> <<"t", "o", "o", "l">>],
     object |-> [id |-> <<"R", "1", "2", "3">>, label |-> <<"R", "1", "2", "3">>, _class |-> "resource"]]

\* The statement lists a bundle request can answer with.
STATEMENT_LISTS ==
    { <<>>,
      << StmtIrrelevant >>,
      << StmtLiteral, StmtRepoUrl, StmtIrrelevant >>,
      << StmtOtherUrl, StmtOntoResource, StmtInternalResource >> }

\* The None of an Optional[Dict]: what make_request returns on any exception.
\* (TLC compares a dict, a record, only with records.)
NoneDict == [None |-> TRUE]

\* Every statement the source can return.
STATEMENTS == UNION {{s[i] : i \in 1..Len(s)} : s \in STATEMENT_LISTS}

\* process_property of each of them, tabulated once.
PROPERTY_OF == [s \in STATEMENTS |-> process_property(s)]

\* make_request: the parsed JSON document, or None on any exception.
BUNDLE_RESPONSES == {NoneDict} \cup {[statements |-> s] : s \in STATEMENT_LISTS}

\* The model's limits on the source: papers per page, contributions per paper.
MaxPapers == 9

MaxContribs == 2

\* The largest arguments collect_contributions is called with, beside a cap
\* that lets the collection outgrow the bootstrap.
MaxMinPerType == 2

SmallCap == 2

\* max_pages is 1000 in the code; the model runs the same loop to a smaller limit.
max_pages == 3

\* The number of accepted contributions up to which every contribution is kept.
BOOTSTRAP == 50

MIN_PER_TYPE_ARGS == 0..MaxMinPerType

MAX_CONTRIBUTIONS_ARGS == {0, SmallCap, BOOTSTRAP + 2}

VARIABLES
    pc,                 \* where collect_contributions is
    min_per_type,       \* its arguments
    max_contributions,
    contributions,      \* the accepted contributions
    page,
    type_counts,
    papers_left,        \* papers of the page the paper loop has not reached
    contribs_left,      \* contributions of the paper the inner loop has not reached
    reply,              \* the response of make_request being handled
    epc,                \* where evaluate_contribution is
    contrib,            \* its arguments
    check_access,
    check_lic,
    position,           \* the number of properties the for loop has finished
    cur,                \* avail, access, link, lic, their reasons and lic_name
    calls,              \* the requests sent for the property being evaluated
    answers,            \* the answers received to them, in the same order
    avail_scores,
    access_scores,
    link_scores,
    lic_scores,
    evals,
    result,             \* the ContributionEval returned
    stmt,               \* the statement given to process_property
    prop,               \* the property it returns
    category,           \* the category get_property_category gives it
    given_score,        \* the score given to get_tier
    tier,               \* the tier it returns
    contribs,           \* the contributions given to run_evaluation
    run_index,          \* the number of them its for loop has reached
    results,            \* its results
    stats               \* the statistics calc_stats returns

\* The variables of collect_contributions, of evaluate_contribution and of the
\* classification of one statement.
cvars == << pc, min_per_type, max_contributions, contributions, page, type_counts,
            papers_left, contribs_left, reply >>

evars == << epc, contrib, check_access, check_lic, position, cur, calls,
            answers, avail_scores, access_scores, link_scores, lic_scores, evals, result >>

kvars == << stmt, prop, category >>

\* The variables of a call of get_tier and of run_evaluation.
tvars == << given_score, tier >>

rvars == << contribs, run_index, results, stats >>

vars == << cvars, evars, kvars, tvars, rvars >>

\* No response is being handled.  (response and stmt_response are read only
\* between the call that sets them and the branch that follows it.)
Unset == [Unset |-> TRUE]

\* len(contributions)
len_contributions == BagCardinality(contributions)

\* Nothing is being evaluated.
EvaluatorIdle ==
    /\ epc = "idle"
    /\ contrib = EmptyDict
    /\ check_access = FALSE
    /\ check_lic = FALSE
    /\ position = 0
    /\ cur = Unset
    /\ calls = <<>>
    /\ answers = <<>>
    /\ avail_scores = <<>>
    /\ access_scores = <<>>
    /\ link_scores = <<>>
    /\ lic_scores = <<>>
    /\ evals = <<>>
    /\ result = Unset

\* Nothing is being classified.
ClassifierIdle ==
    /\ stmt = Unset
    /\ prop = Unset
    /\ category = "idle"

\* No tier is being asked for.
TierIdle ==
    /\ given_score = Unset
    /\ tier = "idle"

\* No dataset is being evaluated.
RunIdle ==
    /\ contribs = <<>>
    /\ run_index = 0
    /\ results = <<>>
    /\ stats = Unset

\* Nothing is being collected.
CollectorIdle ==
    /\ pc = "idle"
    /\ min_per_type = 0
    /\ max_contributions = 0
    /\ contributions = EmptyBag
    /\ page = 0
    /\ type_counts = ZERO_COUNTS
    /\ papers_left = 0
    /\ contribs_left = 0
    /\ reply = Unset

Init ==
    /\ pc = "loop"
    /\ min_per_type \in MIN_PER_TYPE_ARGS
    /\ max_contributions \in MAX_CONTRIBUTIONS_ARGS
    /\ contributions = EmptyBag
    /\ page = 0
    /\ type_counts = ZERO_COUNTS
    /\ papers_left = 0
    /\ contribs_left = 0
    /\ reply = Unset
    /\ EvaluatorIdle
    /\ ClassifierIdle
    /\ TierIdle
    /\ RunIdle

\* The condition of the while loop.
loop_condition ==
    /\ ~is_balanced(type_counts, min_per_type)
    /\ page < max_pages
    /\ len_contributions < max_contributions

\* Mutant: the break forgets the contribution cap.
break_condition_without_cap ==
    is_balanced(type_counts, min_per_type)

\* Mutant: the break forgets the balance.
break_condition_without_balance ==
    len_contributions >= max_contributions

\* The condition on which each of the two for loops breaks.
break_condition ==
    \/ is_balanced(type_counts, min_per_type)
    \/ len_contributions >= max_contributions

\* Mutant: the page index is not advanced.
next_page_same == page

\* page += 1
next_page == page + 1

\* The while condition is false: the function returns contributions.
Return ==
    /\ pc = "loop"
    /\ ~loop_condition
    /\ pc' = "done"
    /\ UNCHANGED << evars, kvars, tvars, rvars, min_per_type, max_contributions, contributions, page, type_counts,
                    papers_left, contribs_left, reply >>

\* response = make_request(.../papers?size=50&page={page})
FetchPage ==
    /\ pc = "loop"
    /\ loop_condition
    /\ \/ reply' = NoneDict
       \/ \E n \in 0..MaxPapers : reply' = [content |-> n]
    /\ pc' = "page_fetched"
    /\ UNCHANGED << evars, kvars, tvars, rvars, min_per_type, max_contributions, contributions, page, type_counts,
                    papers_left, contribs_left >>

\* if not response: break    (the function returns; reply stays the failed response)
PageFailed ==
    /\ pc = "page_fetched"
    /\ reply = NoneDict
    /\ pc' = "done"
    /\ UNCHANGED << evars, kvars, tvars, rvars, min_per_type, max_contributions, contributions, page, type_counts,
                    papers_left, contribs_left, reply >>

\* if not papers: break
PageEmpty ==
    /\ pc = "page_fetched"
    /\ reply # NoneDict
    /\ reply.content = 0
    /\ pc' = "done"
    /\ UNCHANGED << evars, kvars, tvars, rvars, min_per_type, max_contributions, contributions, page, type_counts,
                    papers_left, contribs_left, reply >>

\* for paper in papers: the loop is entered
PageOpened ==
    /\ pc = "page_fetched"
    /\ reply # NoneDict
    /\ reply.content > 0
    /\ papers_left' = reply.content
    /\ reply' = Unset
    /\ pc' = "papers"
    /\ UNCHANGED << evars, kvars, tvars, rvars, min_per_type, max_contributions, contributions, page, type_counts,
                    contribs_left >>

\* The paper loop ends, by exhaustion or by its break; then page += 1.
EndOfPage ==
    /\ pc = "papers"
    /\ papers_left = 0 \/ break_condition
    /\ page' = next_page
    /\ pc' = "loop"
    /\ UNCHANGED << evars, kvars, tvars, rvars, min_per_type, max_contributions, contributions, type_counts,
                    papers_left, contribs_left, reply >>

\* The paper loop takes the next paper: for contrib in paper.get("contributions", [])
NextPaper ==
    /\ pc = "papers"
    /\ papers_left > 0
    /\ ~break_condition
    /\ papers_left' = papers_left - 1
    /\ \E n \in 0..MaxContribs : contribs_left' = n
    /\ pc' = "contribs"
    /\ UNCHANGED << evars, kvars, tvars, rvars, min_per_type, max_contributions, contributions, page, type_counts,
                    reply >>

\* The inner loop ends, by exhaustion or by its break.
EndOfPaper ==
    /\ pc = "contribs"
    /\ contribs_left = 0 \/ break_condition
    /\ pc' = "papers"
    /\ UNCHANGED << evars, kvars, tvars, rvars, min_per_type, max_contributions, contributions, page, type_counts,
                    papers_left, contribs_left, reply >>

\* stmt_response = make_request(.../statements/{contrib_id}/bundle)
FetchBundle ==
    /\ pc = "contribs"
    /\ contribs_left > 0
    /\ ~break_condition
    /\ contribs_left' = contribs_left - 1
    /\ reply' \in BUNDLE_RESPONSES
    /\ pc' = "bundle_fetched"
    /\ UNCHANGED << evars, kvars, tvars, rvars, min_per_type, max_contributions, contributions, page, type_counts,
                    papers_left >>

\* statements = stmt_response.get("statements", []) if stmt_response else []
statements_of(stmt_response) ==
    IF stmt_response # NoneDict THEN Get(stmt_response, "statements", <<>>) ELSE <<>>

\* all_props = [process_property(s) for s in statements]
all_props_of(statements) == [i \in 1..Len(statements) |-> PROPERTY_OF[statements[i]]]

\* repro_props = [p for p in all_props if p["reproducibility_relevant"]]
repro_props_of(all_props) == SelectSeq(all_props, LAMBDA p : p["reproducibility_relevant"])

\* Mutant: the bootstrap ends one contribution early (>= for >).
skips_from_threshold(contrib_types, counts, n_accepted, minimum) ==
    /\ ~is_balanced(counts, minimum)
    /\ ~contribution_helps_balance(contrib_types, counts, minimum)
    /\ n_accepted >= BOOTSTRAP

\* The test of lines 280-284: TRUE when the contribution is passed over.
skips(contrib_types, counts, n_accepted, minimum) ==
    /\ ~is_balanced(counts, minimum)
    /\ ~contribution_helps_balance(contrib_types, counts, minimum)
    /\ n_accepted > BOOTSTRAP

\* The record appended (the fields the collector and save_contributions read).
new_contribution(all_props, repro_props) ==
    [all_properties |-> all_props, reproducibility_properties |-> repro_props]

\* Mutant: the counter is assigned (=) where the code adds (+=).
add_counts_assigning(counts, contrib_types) ==
    [cat \in DOMAIN counts |->
        IF contrib_types[cat] > 0 THEN contrib_types[cat] ELSE counts[cat]]

\* for cat, count in contrib_types.items(): type_counts[cat] += count
add_counts(counts, contrib_types) ==
    [cat \in DOMAIN counts |-> counts[cat] + contrib_types[cat]]

\* Mutant: a failed bundle request ends the collection.
SkipNoStatementsAborting ==
    /\ pc = "bundle_fetched"
    /\ statements_of(reply) = <<>>
    /\ reply' = Unset
    /\ pc' = IF reply = NoneDict THEN "done" ELSE "contribs"
    /\ UNCHANGED << evars, kvars, tvars, rvars, min_per_type, max_contributions, contributions, page, type_counts,
                    papers_left, contribs_left >>

\* if not statements: continue
SkipNoStatements ==
    /\ pc = "bundle_fetched"
    /\ statements_of(reply) = <<>>
    /\ reply' = Unset
    /\ pc' = "contribs"
    /\ UNCHANGED << evars, kvars, tvars, rvars, min_per_type, max_contributions, contributions, page, type_counts,
                    papers_left, contribs_left >>

\* if not repro_props: continue
SkipNoReproProps ==
    /\ pc = "bundle_fetched"
    /\ statements_of(reply) # <<>>
    /\ repro_props_of(all_props_of(statements_of(reply))) = <<>>
    /\ reply' = Unset
    /\ pc' = "contribs"
    /\ UNCHANGED << evars, kvars, tvars, rvars, min_per_type, max_contributions, contributions, page, type_counts,
                    papers_left, contribs_left >>

\* The contribution does not help the balance and the bootstrap is over: continue
Reject ==
    /\ pc = "bundle_fetched"
    /\ statements_of(reply) # <<>>
    /\ LET repro_props == repro_props_of(all_props_of(statements_of(reply)))
       IN  /\ repro_props # <<>>
           /\ skips(count_contribution_types(repro_props), type_counts,
                    len_contributions, min_per_type)
    /\ reply' = Unset
    /\ pc' = "contribs"
    /\ UNCHANGED << evars, kvars, tvars, rvars, min_per_type, max_contributions, contributions, page, type_counts,
                    papers_left, contribs_left >>

\* contributions.append(...); the counters are updated
Accept ==
    /\ pc = "bundle_fetched"
    /\ statements_of(reply) # <<>>
    /\ LET all_props == all_props_of(statements_of(reply))
           repro_props == repro_props_of(all_props)
           contrib_types == count_contribution_types(repro_props)
       IN  /\ repro_props # <<>>
           /\ ~skips(contrib_types, type_counts, len_contributions, min_per_type)
           /\ contributions' =
                  contributions (+) SetToBag({new_contribution(all_props, repro_props)})
           /\ type_counts' = add_counts(type_counts, contrib_types)
    /\ reply' = Unset
    /\ pc' = "contribs"
    /\ UNCHANGED << evars, kvars, tvars, rvars, min_per_type, max_contributions, page, papers_left, contribs_left >>

Next ==
    \/ Return
    \/ FetchPage
    \/ PageFailed
    \/ PageEmpty
    \/ PageOpened
    \/ EndOfPage
    \/ NextPaper
    \/ EndOfPaper
    \/ FetchBundle
    \/ SkipNoStatements
    \/ SkipNoReproProps
    \/ Reject
    \/ Accept

Spec == Init /\ [][Next]_vars

(***************************************************************************)
(* evaluate_reproducibility.py.  A score is 0 or 100 (the floats 0.0 and   *)
(* 100.0); a mean is written as the fraction [num, den] in lowest terms    *)
(* that statistics.mean computes and then rounds to a float (see Floats).  *)
(***************************************************************************)
RECURSIVE gcd(_, _)
gcd(a, b) == IF b = 0 THEN a ELSE gcd(b, a % b)

\* The fraction n/d (n >= 0, d > 0) in lowest terms.
fraction(n, d) == [num |-> n \div gcd(n, d), den |-> d \div gcd(n, d)]

RECURSIVE sum(_)
sum(scores) ==
    IF scores = <<>> THEN 0 ELSE scores[1] + sum(Tail(scores))

\* statistics.mean of a non-empty list of scores.
mean(scores) == fraction(sum(scores), Len(scores))

\* sorted(scores): the ascending list with the same elements.
RECURSIVE sorted(_)
sorted(scores) ==
    IF scores = <<>>
    THEN <<>>
    ELSE LET k == CHOOSE k \in 1..Len(scores) :
                      \A j \in 1..Len(scores) : scores[k] <= scores[j]
             rest == [j \in 1..(Len(scores) - 1) |->
                         IF j < k THEN scores[j] ELSE scores[j + 1]]
         IN  <<scores[k]>> \o sorted(rest)

\* Mutant: only the lowest score is trimmed ([1:] for [1:-1]).
calc_mean_keeping_highest(scores) ==
    IF scores = <<>>
    THEN fraction(100, 1)
    ELSE IF Len(scores) >= 4
         THEN mean(SubSeq(sorted(scores), 2, Len(scores)))
         ELSE mean(scores)

\* Mutant: the trim starts at three scores (n >= 3 for n >= 4).
calc_mean_from_three(scores) ==
    IF scores = <<>>
    THEN fraction(100, 1)
    ELSE IF Len(scores) >= 3
         THEN mean(SubSeq(sorted(scores), 2, Len(scores) - 1))
         ELSE mean(scores)

calc_mean(scores) ==
    IF scores = <<>>
    THEN fraction(100, 1)
    ELSE IF Len(scores) >= 4
         THEN mean(SubSeq(sorted(scores), 2, Len(scores) - 1))
         ELSE mean(scores)

\* Mutant: the four pillar means are trimmed again, the lowest and the
\* highest of them dropped before the mean is taken.
mean_of_four_retrimmed(a, b, c, d) ==
    LET den == a.den * b.den * c.den * d.den
        nums == << a.num * (den \div a.den), b.num * (den \div b.den),
                   c.num * (den \div c.den), d.num * (den \div d.den) >>
        low == CHOOSE x \in {nums[k] : k \in 1..4} : \A k \in 1..4 : x <= nums[k]
        high == CHOOSE x \in {nums[k] : k \in 1..4} : \A k \in 1..4 : x >= nums[k]
    IN  fraction(nums[1] + nums[2] + nums[3] + nums[4] - low - high, 2 * den)

(***************************************************************************)
(* Floats.  statistics.mean returns the double nearest to the exact mean   *)
(* of its data, so a pillar mean is the double nearest to a fraction and   *)
(* is written as that fraction, [num, den].  The overall score is the mean *)
(* of four doubles; it is written [num, den] when it is the double nearest *)
(* to the mean num/den of the four fractions and [num, den, ulps] when it  *)
(* is the double ulps places above (below, when negative) that one.  A     *)
(* double is computed here in binary: int is its integer part and frac the *)
(* bits after the binary point, without trailing zeros.                    *)
(***************************************************************************)
\* The number of bits of the significand of a double.
SIGNIFICAND_BITS == 53

\* The floats in binary.
Binary == [int : Nat, frac : Seq({0, 1})]

bit_length[n \in Nat] == IF n = 0 THEN 0 ELSE 1 + bit_length[n \div 2]

\* The number of bits equal to bit the bits end with.
trailing[bits \in Seq({0, 1}), bit \in {0, 1}] ==
    IF bits = <<>> \/ bits[Len(bits)] # bit
    THEN 0
    ELSE 1 + trailing[SubSeq(bits, 1, Len(bits) - 1), bit]

\* The number of zeros the bits begin with.
zeros_before[bits \in Seq({0, 1})] ==
    IF bits = <<>> \/ bits[1] = 1 THEN 0 ELSE 1 + zeros_before[Tail(bits)]

\* The bits followed by zeros up to n bits.
padded(bits, n) == bits \o [k \in 1..(n - Len(bits)) |-> 0]

\* The float with this integer part and these bits after the binary point.
binary[int \in Nat, bits \in Seq({0, 1})] ==
    [int |-> int, frac |-> SubSeq(bits, 1, Len(bits) - trailing[bits, 0])]

\* The first n bits after the binary point of rem / den, 0 <= rem < den.
fraction_bits[rem \in Nat, den \in Nat, n \in Nat] ==
    IF n = 0
    THEN <<>>
    ELSE <<(2 * rem) \div den>> \o fraction_bits[(2 * rem) % den, den, n - 1]

\* What is left of rem / den after its first n bits, times 2^n * den.
remainder_after[rem \in Nat, den \in Nat, n \in Nat] ==
    IF n = 0 THEN rem ELSE remainder_after[(2 * rem) % den, den, n - 1]

\* The number of zeros after the binary point of rem / den before its first
\* one, 0 < rem < den.
leading_zeros[rem \in Nat, den \in Nat] ==
    IF 2 * rem >= den THEN 0 ELSE 1 + leading_zeros[2 * rem, den]

\* The number of bits after the binary point of a double, given its integer
\* part and, when that is 0, the zeros its fraction begins with.
places(int, zeros) ==
    IF int > 0
    THEN SIGNIFICAND_BITS - bit_length[int]
    ELSE zeros + SIGNIFICAND_BITS

\* int.bits plus one unit in the last place of the bits.
successor[int \in Nat, bits \in Seq({0, 1})] ==
    LET zero == Len(bits) - trailing[bits, 1]
    IN  IF zero = 0
        THEN binary[int + 1, <<>>]
        ELSE binary[int, SubSeq(bits, 1, zero - 1) \o <<1>>]

\* int.bits minus one unit in the last place of the bits, int.bits > 0.
predecessor[int \in Nat, bits \in Seq({0, 1})] ==
    LET one == Len(bits) - trailing[bits, 0]
        ones == [k \in 1..(Len(bits) - one) |-> 1]
    IN  IF one = 0
        THEN binary[int - 1, ones]
        ELSE binary[int, SubSeq(bits, 1, one - 1) \o <<0>> \o ones]

\* The double nearest to num / den, ties to even: float(Fraction(num, den)).
nearest_double[num \in Nat, den \in Nat \ {0}] ==
    LET int == num \div den
        rem == num % den
    IN  IF rem = 0
        THEN binary[int, <<>>]
        ELSE LET n == places(int, IF int > 0 THEN 0 ELSE leading_zeros[rem, den])
                 kept == fraction_bits[rem, den, n]
                 left == remainder_after[rem, den, n]
             IN  IF 2 * left > den \/ (2 * left = den /\ kept[n] = 1)
                 THEN successor[int, kept]
                 ELSE binary[int, kept]

\* x + y, exactly.
plus[x \in Binary, y \in Binary] ==
    LET n == IF Len(x.frac) > Len(y.frac) THEN Len(x.frac) ELSE Len(y.frac)
        f == padded(x.frac, n)
        g == padded(y.frac, n)
        sum_from[k \in 0..n, carry \in {0, 1}, bits \in Seq({0, 1})] ==
            IF k = 0
            THEN binary[x.int + y.int + carry, bits]
            ELSE sum_from[k - 1, (f[k] + g[k] + carry) \div 2,
                          <<(f[k] + g[k] + carry) % 2>> \o bits]
    IN  sum_from[n, 0, <<>>]

\* x / 4, exactly.
quarter[x \in Binary] ==
    binary[x.int \div 4, <<(x.int % 4) \div 2, x.int % 2>> \o x.frac]

\* The double nearest to x, ties to even.
rounded[x \in Binary] ==
    LET n == places(x.int, zeros_before[x.frac])
        kept == SubSeq(x.frac, 1, n)
    IN  IF Len(x.frac) <= n
        THEN x
        ELSE IF x.frac[n + 1] = 1 /\ (Len(x.frac) > n + 1 \/ kept[n] = 1)
        THEN successor[x.int, kept]
        ELSE binary[x.int, kept]

\* The double after x, x > 0.
next_double[x \in Binary] ==
    successor[x.int, padded(x.frac, places(x.int, zeros_before[x.frac]))]

\* The double before x, x > 0: below a power of two the doubles are twice as
\* close.
prev_double[x \in Binary] ==
    LET power_of_two ==
            IF x.int > 0
            THEN x.frac = <<>> /\ x.int = 2 ^ (bit_length[x.int] - 1)
            ELSE Len(x.frac) = zeros_before[x.frac] + 1
        n == places(x.int, zeros_before[x.frac]) + (IF power_of_two THEN 1 ELSE 0)
    IN  predecessor[x.int, padded(x.frac, n)]

\* The double k places after x (before, when k is negative).
places_after[x \in Binary, k \in Int] ==
    IF k = 0 THEN x
    ELSE IF k > 0 THEN places_after[next_double[x], k - 1]
    ELSE places_after[prev_double[x], k + 1]

\* The number of places y is after x (before, when negative), for two
\* doubles a few places apart: the search goes both ways from x.
places_between[x \in Binary, y \in Binary] ==
    LET seek[above \in Binary, below \in Binary, k \in Nat] ==
            IF above = y THEN k
            ELSE IF below = y THEN -k
            ELSE seek[next_double[above], prev_double[below], k + 1]
    IN  seek[x, x, 0]

\* The double a score stands for.
double_of(score) ==
    places_after[nearest_double[score.num, score.den], Get(score, "ulps", 0)]

\* statistics.mean of the four pillar means: the double nearest to the exact
\* mean of the four doubles.
mean_of_four(a, b, c, d) ==
    LET den == a.den * b.den * c.den * d.den
        num == a.num * (den \div a.den) + b.num * (den \div b.den)
               + c.num * (den \div c.den) + d.num * (den \div d.den)
        exact == fraction(num, 4 * den)
        overall == rounded[quarter[plus[plus[double_of(a), double_of(b)],
                                        plus[double_of(c), double_of(d)]]]]
        ulps == places_between[nearest_double[exact.num, exact.den], overall]
    IN  IF ulps = 0
        THEN exact
        ELSE [num |-> exact.num, den |-> exact.den, ulps |-> ulps]

\* score >= bound, for a float and an integer.
at_least(score, bound) == double_of(score).int >= bound

\* Mutant: the lower bounds of the tiers are exclusive.
get_tier_exclusive(score) ==
    IF ~at_least(score, 80) \/ score.num = 80 * score.den
    THEN IF ~at_least(score, 60) \/ score.num = 60 * score.den
         THEN IF ~at_least(score, 40) \/ score.num = 40 * score.den
              THEN "Poor"
              ELSE "Fair"
         ELSE "Good"
    ELSE "Excellent"

get_tier(score) ==
    IF at_least(score, 80) THEN "Excellent"
    ELSE IF at_least(score, 60) THEN "Good"
    ELSE IF at_least(score, 40) THEN "Fair"
    ELSE "Poor"

\* str.strip()
strip(s) ==
    LET keep == {k \in 1..Len(s) : s[k] \notin WHITESPACE}
    IN  IF keep = {}
        THEN <<>>
        ELSE SubSeq(s, Min(keep), CHOOSE k \in keep : \A j \in keep : j <= k)

\* s[:n]
take(s, n) == SubSeq(s, 1, IF Len(s) < n THEN Len(s) ELSE n)

NULL_LIKE ==
    { <<"n", "/", "a">>,
      <<"n", "o", "n", "e">>,
      <<"n", "u", "l", "l">> }

NOASSERTION == <<"N", "O", "A", "S", "S", "E", "R", "T", "I", "O", "N">>

GITHUB == <<"g", "i", "t", "h", "u", "b">>

ONTOLOGY == <<"o", "n", "t", "o", "l", "o", "g", "y">>

QUESTION_MARK == <<"?">>

TXT_VALID_HAS_VALUE == <<"V", "a", "l", "i", "d", ":", " ", "h", "a", "s", " ", "v", "a", "l", "u", "e">>

TXT_NOT_VALID_EMPTY == <<"N", "o", "t", " ", "V", "a", "l", "i", "d", ":", " ", "e", "m", "p", "t", "y", "/", "n", "u", "l", "l">>

TXT_INAPPLICABLE_URL == <<"I", "n", "a", "p", "p", "l", "i", "c", "a", "b", "l", "e", " ", "(", "n", "o", "t", " ", "U", "R", "L", ")">>

TXT_INAPPLICABLE_RESOURCE == <<"I", "n", "a", "p", "p", "l", "i", "c", "a", "b", "l", "e", " ", "(", "n", "o", "t", " ", "r", "e", "s", "o", "u", "r", "c", "e", ")">>

TXT_INAPPLICABLE_REPO == <<"I", "n", "a", "p", "p", "l", "i", "c", "a", "b", "l", "e", " ", "(", "n", "o", "t", " ", "r", "e", "p", "o", " ", "U", "R", "L", ")">>

TXT_INAPPLICABLE == <<"I", "n", "a", "p", "p", "l", "i", "c", "a", "b", "l", "e">>

TXT_SKIPPED == <<"S", "k", "i", "p", "p", "e", "d">>

TXT_VALID == <<"V", "a", "l", "i", "d", ":", " ">>

TXT_NOT_VALID == <<"N", "o", "t", " ", "V", "a", "l", "i", "d", ":", " ">>

TXT_HTTP == <<"H", "T", "T", "P", " ">>

TXT_ERROR == <<"E", "r", "r", "o", "r", ":", " ">>

TXT_LINKED_TO == <<"V", "a", "l", "i", "d", ":", " ", "l", "i", "n", "k", "e", "d", " ", "t", "o", " ">>

TXT_INTERNAL == <<"N", "o", "t", " ", "V", "a", "l", "i", "d", ":", " ", "i", "n", "t", "e", "r", "n", "a", "l", " ", "O", "R", "K", "G", " ", "r", "e", "s", "o", "u", "r", "c", "e", " ">>

TXT_LICENSE == <<"L", "i", "c", "e", "n", "s", "e", ":", " ">>

TXT_NO_LICENSE_FOUND == <<"N", "o", " ", "l", "i", "c", "e", "n", "s", "e", " ", "f", "o", "u", "n", "d">>

TXT_NO_LICENSE == <<"N", "o", " ", "l", "i", "c", "e", "n", "s", "e">>

TXT_API_FAILED == <<"A", "P", "I", " ", "f", "a", "i", "l", "e", "d">>

TXT_UNSUPPORTED == <<"U", "n", "s", "u", "p", "p", "o", "r", "t", "e", "d", ":", " ">>

\* A dict that is neither None nor empty.
TruthyDict(d) == d # NoneDict /\ DOMAIN d # {}

\* The availability test of evaluate_contribution.
has_value(value) ==
    /\ Truthy(value)
    /\ Truthy(strip(value))
    /\ lower(value) \notin NULL_LIKE

(***************************************************************************)
(* The answers of the network.  check_url sends a HEAD request and, when   *)
(* it is answered 405, a GET request; urlopen returns a response or raises *)
(* HTTPError (a status), URLError (a reason) or another exception.         *)
(* api_request returns the JSON document of a 200 response, else None.     *)
(***************************************************************************)
HEAD_OUTCOMES ==
    { [kind |-> "response", status |-> 200],
      [kind |-> "HTTPError", code |-> 404],
      [kind |-> "HTTPError", code |-> 405],
      [kind |-> "URLError",
       reason |-> <<"[", "E", "r", "r", "n", "o", " ", "-", "2", "]", " ", "N", "a", "m", "e", " ", "o", "r", " ", "s", "e", "r", "v", "i", "c", "e", " ", "n", "o", "t", " ", "k", "n", "o", "w", "n">>],
      [kind |-> "Exception", text |-> <<"t", "i", "m", "e", "d", " ", "o", "u", "t">>] }

GET_OUTCOMES ==
    { [kind |-> "response", status |-> 200],
      [kind |-> "HTTPError", code |-> 404],
      [kind |-> "Exception", text |-> <<"t", "i", "m", "e", "d", " ", "o", "u", "t">>] }

GITHUB_RESPONSES ==
    { NoneDict,
      [id |-> 1, license |-> [spdx_id |-> <<"M", "I", "T">>, name |-> <<"M", "I", "T", " ", "L", "i", "c", "e", "n", "s", "e">>]],
      [id |-> 1, license |-> [spdx_id |-> <<"M", "I", "T">>, name |-> None]],
      [id |-> 1, license |-> [spdx_id |-> NOASSERTION, name |-> <<"O", "t", "h", "e", "r">>]],
      [id |-> 1, license |-> NoneDict],
      [message |-> <<"N", "o", "t", " ", "F", "o", "u", "n", "d">>] }

ZENODO_RESPONSES ==
    { NoneDict,
      [id |-> 1, metadata |-> [license |-> [id |-> <<"c", "c", "-", "b", "y", "-", "4", ".", "0">>]]],
      [id |-> 1, metadata |-> [license |-> [id |-> NOASSERTION]]],
      [id |-> 1, metadata |-> [license |-> [title |-> <<"O", "t", "h", "e", "r">>]]],
      [id |-> 1, metadata |-> [title |-> <<"x">>]],
      [id |-> 1],
      [status |-> 404] }

\* check_url once the HEAD request is answered with something other than 405,
\* or the GET request is answered: (ok, reason).
check_url_result(head, get) ==
    IF head.kind = "response"
    THEN << TRUE, TXT_HTTP \o str_of_int(head.status) >>
    ELSE IF head.kind = "HTTPError"
    THEN IF head.code = 405 /\ get.kind = "response"
         THEN << TRUE, TXT_HTTP \o str_of_int(get.status) >>
         ELSE << FALSE, TXT_HTTP \o str_of_int(head.code) >>
    ELSE IF head.kind = "URLError"
    THEN << FALSE, TXT_ERROR \o take(head.reason, 30) >>
    ELSE << FALSE, TXT_ERROR \o take(head.text, 30) >>

\* check_github, given the answer of api_request: (has_license, name, reason).
check_github(resp) ==
    LET lic == Get(resp, "license", NoneDict)
        spdx == IF TruthyDict(lic) THEN Get(lic, "spdx_id", None) ELSE None
    IN  IF TruthyDict(resp) /\ TruthyDict(lic) /\ Truthy(spdx) /\ spdx # NOASSERTION
        THEN LET name == IF Truthy(Get(lic, "name", None))
                         THEN Get(lic, "name", None)
                         ELSE spdx
             IN  << TRUE, name, TXT_LICENSE \o str_of(name) >>
        ELSE IF TruthyDict(resp) /\ "id" \in DOMAIN resp
        THEN << FALSE, <<>>, TXT_NO_LICENSE_FOUND >>
        ELSE << FALSE, <<>>, TXT_API_FAILED >>

\* isinstance(x, dict) for x a dict or a str: the keys of a dict are strings,
\* those of a str (a sequence) are 1..Len.
isinstance_dict(x) ==
    \A k \in DOMAIN x :
        ToString(k) \notin {ToString(i) : i \in 1..Cardinality(DOMAIN x)}

\* Python truthiness of a value that is a dict, a str or None.
truthy(x) ==
    /\ DOMAIN x # {}
    /\ IF isinstance_dict(x) THEN x # NoneDict ELSE x # None

\* check_zenodo, given the answer of api_request; the license of the record
\* is a dict or a str.
check_zenodo(resp) ==
    LET lic == IF TruthyDict(resp)
               THEN Get(Get(resp, "metadata", EmptyDict), "license", NoneDict)
               ELSE NoneDict
    IN  IF TruthyDict(resp) /\ truthy(lic)
        THEN LET name == IF isinstance_dict(lic)
                         THEN Get(lic, "id", None)
                         ELSE str_of(lic)
             IN  << TRUE, name, TXT_LICENSE \o str_of(name) >>
        ELSE IF TruthyDict(resp) /\ "id" \in DOMAIN resp
        THEN << FALSE, <<>>, TXT_NO_LICENSE >>
        ELSE << FALSE, <<>>, TXT_API_FAILED >>

\* The hosts check_license has a lookup for.
supported(repo_type) == repo_type = GITHUB \/ repo_type = ZENODO

\* check_license, given the answer of the lookup it sends for a supported host.
check_license(repo_type, resp) ==
    IF repo_type = GITHUB THEN check_github(resp)
    ELSE IF repo_type = ZENODO THEN check_zenodo(resp)
    ELSE << FALSE, <<>>, TXT_UNSUPPORTED \o str_of(repo_type) >>

LICENSE_RESPONSES(repo_type) ==
    IF repo_type = GITHUB THEN GITHUB_RESPONSES ELSE ZENODO_RESPONSES

(***************************************************************************)
(* The contributions given to evaluate_contribution.  The dataset is the   *)
(* file save_contributions writes, so a property is what process_property  *)
(* returns for a statement.                                                *)
(***************************************************************************)
StmtGithub ==
    [predicate |-> [id |-> <<"P", "1">>, label |-> <<"c", "o", "d", "e">>],
     object |-> [id |-> <<"L", "5">>, label |-> <<"h", "t", "t", "p", "s", ":", "/", "/", "g", "i", "t", "h", "u", "b", ".", "c", "o", "m", "/", "o", "/", "r">>, _class |-> "literal"]]

StmtGitlab ==
    [predicate |-> [id |-> <<"P", "1">>, label |-> <<"c", "o", "d", "e">>],
     object |-> [id |-> <<"L", "6">>, label |-> <<"h", "t", "t", "p", "s", ":", "/", "/", "g", "i", "t", "l", "a", "b", ".", "c", "o", "m", "/", "o", "/", "r">>, _class |-> "literal"]]

StmtZenodo ==
    [predicate |-> [id |-> <<"P", "1">>, label |-> <<"d", "a", "t", "a", "s", "e", "t">>],
     object |-> [id |-> <<"L", "7">>, label |-> <<"h", "t", "t", "p", "s", ":", "/", "/", "z", "e", "n", "o", "d", "o", ".", "o", "r", "g", "/", "r", "e", "c", "o", "r", "d", "/", "1", "2">>, _class |-> "literal"]]

StmtEmpty ==
    [predicate |-> [id |-> <<"P", "1">>, label |-> <<"m", "e", "t", "h", "o", "d">>],
     object |-> [id |-> <<"L", "8">>, label |-> <<>>, _class |-> "literal"]]

StmtNotApplicable ==
    [predicate |-> [id |-> <<"P", "1">>, label |-> <<"m", "e", "t", "h", "o", "d">>],
     object |-> [id |-> <<"L", "9">>, label |-> <<"N", "/", "A">>, _class |-> "literal"]]

StmtPaddedNone ==
    [predicate |-> [id |-> <<"P", "1">>, label |-> <<"m", "e", "t", "h", "o", "d">>],
     object |-> [id |-> <<"L", "1", "0">>, label |-> <<" ", "n", "o", "n", "e">>, _class |-> "literal"]]

StmtBlank ==
    [predicate |-> [id |-> <<"P", "1">>, label |-> <<"m", "e", "t", "h", "o", "d">>],
     object |-> [id |-> <<"L", "1", "1">>, label |-> <<" ", " ">>, _class |-> "literal"]]

PropGithub == process_property(StmtGithub)

PropGitlab == process_property(StmtGitlab)

PropZenodo == process_property(StmtZenodo)

PropOtherUrl == process_property(StmtOtherUrl)

PropOnto == process_property(StmtOntoResource)

PropInternal == process_property(StmtInternalResource)

PropLiteral == process_property(StmtLiteral)

PropEmpty == process_property(StmtEmpty)

\* The statements the properties of the dataset are made from; the last is
\* the empty statement, for which every get of process_property falls back
\* on its default.
PROPERTY_SOURCES ==
    { StmtGithub, StmtGitlab, StmtZenodo, StmtOtherUrl, StmtOntoResource,
      StmtInternalResource, StmtLiteral, StmtEmpty, StmtNotApplicable,
      StmtPaddedNone, StmtBlank, EmptyDict }

\* The longest property list of a contribution.
MaxProps == 5

\* The lists of length 3..MaxProps over the two sources.
lists_of(a, b) ==
    UNION { [1..n -> {a, b}] : n \in 3..MaxProps }

\* One repository link that resolves, one ontology-linked resource, one
\* internal resource and one literal.
SCENARIO == << PropGithub, PropOnto, PropInternal, PropLiteral >>

\* The sources of the property lists: every list of at most two sources,
\* longer lists over two sources, the sources of SCENARIO, and three sources
\* whose pillar means are 200/3, 100, 200/3 and 100 (the mean of these four
\* floats is not the float nearest to 250/3).
SOURCE_LISTS ==
    {<<>>} \cup {<<s>> : s \in PROPERTY_SOURCES}
           \cup {<<s, t>> : s \in PROPERTY_SOURCES, t \in PROPERTY_SOURCES}
           \cup lists_of(StmtOntoResource, StmtInternalResource)
           \cup lists_of(StmtLiteral, StmtEmpty)
           \cup { << StmtGithub, StmtOntoResource, StmtInternalResource, StmtLiteral >>,
                  << StmtLiteral, StmtEmpty, StmtInternalResource >> }

PROPERTY_LISTS ==
    { [k \in 1..Len(l) |-> process_property(l[k])] : l \in SOURCE_LISTS }

CONTRIBUTIONS ==
    {EmptyDict} \cup
    { [contribution_id |-> <<"R", "2">>, paper_id |-> <<"R", "1">>,
       paper_title |-> <<"T">>, reproducibility_properties |-> l] :
      l \in PROPERTY_LISTS }

\* props, cid, pid and ptitle of evaluate_contribution.
props == Get(contrib, "reproducibility_properties", <<>>)

\* The property the for loop is at.
p == props[position + 1]

value == Get(p, "value", <<>>)

ptype == Get(p, "property_type", "literal")

\* The HTTPError the GET request follows.
HTTP_405 == [kind |-> "HTTPError", code |-> 405]

InitEval ==
    /\ epc = "property"
    /\ contrib \in CONTRIBUTIONS
    /\ check_access \in BOOLEAN
    /\ check_lic \in BOOLEAN
    /\ position = 0
    /\ cur = Unset
    /\ calls = <<>>
    /\ answers = <<>>
    /\ avail_scores = <<>>
    /\ access_scores = <<>>
    /\ link_scores = <<>>
    /\ lic_scores = <<>>
    /\ evals = <<>>
    /\ result = Unset
    /\ CollectorIdle
    /\ ClassifierIdle
    /\ TierIdle
    /\ RunIdle

\* Mutant: the HEAD request is sent for a URL whatever check_access says.
BeginPropertyAlwaysProbing ==
    /\ epc = "property"
    /\ position < Len(props)
    /\ cur' = [ avail |-> IF has_value(value) THEN 100 ELSE 0,
                avail_r |-> IF has_value(value)
                            THEN TXT_VALID_HAS_VALUE
                            ELSE TXT_NOT_VALID_EMPTY,
                access |-> 100,
                access_r |-> IF ptype = "url" /\ ~check_access
                             THEN TXT_SKIPPED
                             ELSE TXT_INAPPLICABLE_URL,
                link |-> 100,
                link_r |-> TXT_INAPPLICABLE_RESOURCE,
                lic |-> 100,
                lic_r |-> TXT_INAPPLICABLE_REPO,
                lic_name |-> <<>> ]
    /\ IF ptype = "url"
       THEN epc' = "head" /\ calls' = <<"HEAD">>
       ELSE epc' = "linkability" /\ calls' = <<>>
    /\ answers' = <<>>
    /\ UNCHANGED << cvars, kvars, tvars, rvars, contrib, check_access, check_lic, position,
                    avail_scores, access_scores, link_scores, lic_scores,
                    evals, result >>

\* The defaults of a property, the availability test, and the accessibility
\* branch up to the HEAD request of check_url.
BeginProperty ==
    /\ epc = "property"
    /\ position < Len(props)
    /\ cur' = [ avail |-> IF has_value(value) THEN 100 ELSE 0,
                avail_r |-> IF has_value(value)
                            THEN TXT_VALID_HAS_VALUE
                            ELSE TXT_NOT_VALID_EMPTY,
                access |-> 100,
                access_r |-> IF ptype = "url" /\ ~check_access
                             THEN TXT_SKIPPED
                             ELSE TXT_INAPPLICABLE_URL,
                link |-> 100,
                link_r |-> TXT_INAPPLICABLE_RESOURCE,
                lic |-> 100,
                lic_r |-> TXT_INAPPLICABLE_REPO,
                lic_name |-> <<>> ]
    /\ IF ptype = "url" /\ check_access
       THEN epc' = "head" /\ calls' = <<"HEAD">>
       ELSE epc' = "linkability" /\ calls' = <<>>
    /\ answers' = <<>>
    /\ UNCHANGED << cvars, kvars, tvars, rvars, contrib, check_access, check_lic, position,
                    avail_scores, access_scores, link_scores, lic_scores,
                    evals, result >>

\* access and access_r, given what check_url returns.
with_access(c, checked) ==
    [c EXCEPT !.access = IF checked[1] THEN 100 ELSE 0,
              !.access_r = IF checked[1]
                           THEN TXT_VALID \o checked[2]
                           ELSE TXT_NOT_VALID \o checked[2]]

\* Mutant: any HTTPError of the HEAD request is followed by a GET request.
HeadReplyRetryingEveryStatus ==
    /\ epc = "head"
    /\ \E head \in HEAD_OUTCOMES :
          IF head.kind = "HTTPError"
          THEN /\ epc' = "get"
               /\ calls' = Append(calls, "GET")
               /\ answers' = Append(answers, head)
               /\ cur' = cur
          ELSE /\ epc' = "linkability"
               /\ calls' = calls
               /\ answers' = Append(answers, head)
               /\ cur' = with_access(cur, check_url_result(head, head))
    /\ UNCHANGED << cvars, kvars, tvars, rvars, contrib, check_access, check_lic, position,
                    avail_scores, access_scores, link_scores, lic_scores,
                    evals, result >>

\* The HEAD request is answered: a 405 is followed by a GET request.
HeadReply ==
    /\ epc = "head"
    /\ \E head \in HEAD_OUTCOMES :
          IF head = HTTP_405
          THEN /\ epc' = "get"
               /\ calls' = Append(calls, "GET")
               /\ answers' = Append(answers, head)
               /\ cur' = cur
          ELSE /\ epc' = "linkability"
               /\ calls' = calls
               /\ answers' = Append(answers, head)
               /\ cur' = with_access(cur, check_url_result(head, head))
    /\ UNCHANGED << cvars, kvars, tvars, rvars, contrib, check_access, check_lic, position,
                    avail_scores, access_scores, link_scores, lic_scores,
                    evals, result >>

\* The GET request is answered.
GetReply ==
    /\ epc = "get"
    /\ \E get \in GET_OUTCOMES :
          /\ cur' = with_access(cur, check_url_result(HTTP_405, get))
          /\ answers' = Append(answers, get)
    /\ epc' = "linkability"
    /\ UNCHANGED << cvars, kvars, tvars, rvars, contrib, check_access, check_lic, position,
                    calls, avail_scores, access_scores, link_scores, lic_scores,
                    evals, result >>

\* lic, lic_r and lic_name, given what check_license returns.
with_license(c, checked) ==
    [c EXCEPT !.lic = IF checked[1] THEN 100 ELSE 0,
              !.lic_r = IF checked[1]
                        THEN TXT_VALID \o checked[3]
                        ELSE TXT_NOT_VALID \o checked[3],
              !.lic_name = checked[2]]

\* Mutant: a resource is scored as linked whatever its flag says.
with_link_always_linked(c) ==
    IF ptype = "resource"
    THEN [c EXCEPT !.link = 100,
                   !.link_r = TXT_LINKED_TO
                              \o str_of(Get(p, "ontology_source", ONTOLOGY))]
    ELSE c

\* The linkability branch.
with_link(c) ==
    IF ptype = "resource"
    THEN IF Get(p, "is_ontology_linked", FALSE)
         THEN [c EXCEPT !.link = 100,
                        !.link_r = TXT_LINKED_TO
                                   \o str_of(Get(p, "ontology_source", ONTOLOGY))]
         ELSE [c EXCEPT !.link = 0,
                        !.link_r = TXT_INTERNAL
                                   \o str_of(Get(p, "object_id", QUESTION_MARK))]
    ELSE c

\* Mutant: every URL is taken for a repository URL.
license_applies_to_every_url == ptype = "url"

\* The condition of the license branch.
license_applies == ptype = "url" /\ Get(p, "is_repo_url", FALSE)

\* The linkability branch and the license branch up to the lookup that
\* check_github or check_zenodo sends.
Linkability ==
    /\ epc = "linkability"
    /\ IF license_applies /\ check_lic /\ supported(Get(p, "repo_type", <<>>))
       THEN /\ cur' = with_link(cur)
            /\ epc' = "lookup"
            /\ calls' = Append(calls, "api_request")
       ELSE /\ cur' = IF license_applies
                      THEN IF check_lic
                           THEN with_license(with_link(cur),
                                    check_license(Get(p, "repo_type", <<>>), NoneDict))
                           ELSE [with_link(cur) EXCEPT !.lic_r = TXT_SKIPPED]
                      ELSE with_link(cur)
            /\ epc' = "append"
            /\ calls' = calls
    /\ UNCHANGED << cvars, kvars, tvars, rvars, contrib, check_access, check_lic, position,
                    answers,
                    avail_scores, access_scores, link_scores, lic_scores,
                    evals, result >>

\* The lookup is answered.
LookupReply ==
    /\ epc = "lookup"
    /\ \E resp \in LICENSE_RESPONSES(Get(p, "repo_type", <<>>)) :
          /\ cur' = with_license(cur, check_license(Get(p, "repo_type", <<>>), resp))
          /\ answers' = Append(answers, resp)
    /\ epc' = "append"
    /\ UNCHANGED << cvars, kvars, tvars, rvars, contrib, check_access, check_lic, position,
                    calls, avail_scores, access_scores, link_scores, lic_scores,
                    evals, result >>

\* The PropertyEval of the property.
property_eval(c) ==
    [ contribution_id |-> Get(contrib, "contribution_id", <<>>),
      paper_id |-> Get(contrib, "paper_id", <<>>),
      paper_title |-> Get(contrib, "paper_title", <<>>),
      predicate_id |-> Get(p, "predicate_id", <<>>),
      predicate_label |-> Get(p, "predicate_label", <<>>),
      object_id |-> Get(p, "object_id", <<>>),
      property_type |-> ptype,
      value |-> take(value, 150),
      availability |-> c.avail,
      availability_reason |-> c.avail_r,
      accessibility |-> c.access,
      accessibility_reason |-> c.access_r,
      linkability |-> c.link,
      linkability_reason |-> c.link_r,
      license |-> c.lic,
      license_reason |-> c.lic_r,
      repo_type |-> Get(p, "repo_type", <<>>),
      ontology_source |-> Get(p, "ontology_source", <<>>),
      license_name |-> c.lic_name ]

\* The four appends, the PropertyEval, and the step of the for loop.
AppendScores ==
    /\ epc = "append"
    /\ avail_scores' = Append(avail_scores, cur.avail)
    /\ access_scores' = Append(access_scores, cur.access)
    /\ link_scores' = Append(link_scores, cur.link)
    /\ lic_scores' = Append(lic_scores, cur.lic)
    /\ evals' = Append(evals, property_eval(cur))
    /\ position' = position + 1
    /\ cur' = Unset
    /\ calls' = <<>>
    /\ answers' = <<>>
    /\ epc' = "property"
    /\ UNCHANGED << cvars, kvars, tvars, rvars, contrib, check_access, check_lic, result >>

\* The ContributionEval of the four score lists.
contribution_eval(avail, access, link, lic) ==
    LET avail_mean == calc_mean(avail)
        access_mean == calc_mean(access)
        link_mean == calc_mean(link)
        lic_mean == calc_mean(lic)
        overall == mean_of_four(avail_mean, access_mean, link_mean, lic_mean)
    IN  [ contribution_id |-> Get(contrib, "contribution_id", <<>>),
          paper_id |-> Get(contrib, "paper_id", <<>>),
          paper_title |-> Get(contrib, "paper_title", <<>>),
          num_properties |-> Len(props),
          availability |-> avail_mean,
          accessibility |-> access_mean,
          linkability |-> link_mean,
          license |-> lic_mean,
          overall |-> overall,
          tier |-> get_tier(overall),
          properties |-> evals ]

\* The for loop is over: the means, the overall score and the tier.
Finish ==
    /\ epc = "property"
    /\ position = Len(props)
    /\ result' = contribution_eval(avail_scores, access_scores, link_scores, lic_scores)
    /\ epc' = "done"
    /\ UNCHANGED << cvars, kvars, tvars, rvars, contrib, check_access, check_lic, position,
                    cur, calls, answers, avail_scores, access_scores, link_scores,
                    lic_scores, evals >>

NextEval ==
    \/ BeginProperty
    \/ HeadReply
    \/ GetReply
    \/ Linkability
    \/ LookupReply
    \/ AppendScores
    \/ Finish

SpecEval == InitEval /\ [][NextEval]_vars

(***************************************************************************)
(* The statements given to process_property one at a time: every           *)
(* combination of a predicate and an object with any of their fields       *)
(* missing, the statement's predicate or object missing too.               *)
(***************************************************************************)
OBJECT_LABELS ==
    { <<"h", "t", "t", "p", ":", "/", "/">>,
      <<"h", "t", "t", "p", "s", ":", "/", "/", "g", "i", "t", "h", "u", "b", ".", "c", "o", "m", "/", "o", "/", "r", ".", "g", "i", "t">>,
      <<"H", "T", "T", "P", ":", "/", "/", "X", ".", "O", "R", "G">>,
      <<" ", "h", "t", "t", "p", ":", "/", "/", "x", ".", "o", "r", "g">>,
      <<"f", "t", "p", ":", "/", "/", "x", ".", "o", "r", "g">>,
      <<"h", "t", "t", "p", "s", ":", "/", "/", "g", "i", "t", "h", "u", "b", ".", "c", "o", "m", "/", "o", "/", ".", "g", "i", "t">>,
      <<"h", "t", "t", "p", "s", ":", "/", "/", "g", "i", "t", "h", "u", "b", ".", "c", "o", "m", "/", "o", "/", "r", ".", "g", "i", "t", ".", "g", "i", "t">>,
      <<"h", "t", "t", "p", "s", ":", "/", "/", "z", "e", "n", "o", "d", "o", ".", "o", "r", "g", "/", "r", "e", "c", "o", "r", "d", "/", "9", "/", "g", "i", "t", "h", "u", "b", ".", "c", "o", "m", "/", "a", "/", "b">>,
      <<"h", "t", "t", "p", "s", ":", "/", "/", "z", "e", "n", "o", "d", "o", ".", "o", "r", "g", "/", "r", "e", "c", "o", "r", "d", "/", "1", "2">>,
      <<"h", "t", "t", "p", ":", "/", "/", "w", "w", "w", ".", "w", "i", "k", "i", "d", "a", "t", "a", ".", "o", "r", "g", "/", "e", "n", "t", "i", "t", "y", "/", "Q", "1">>,
      <<"h", "t", "t", "p", "s", ":", "/", "/", "g", "i", "t", "l", "a", "b", ".", "c", "o", "m", "/", "o", "/", "r", ".", "g", "i", "t", "?", "x">>,
      <<"v", "1", ".", "0">>,
      <<"h", "t", "t", "p", "s", ":", "/", "/", "g", "i", "t", "h", "u", "b", ".", "c", "o", "m", "/", "o", "/", "r", " ", "z">>,
      None,
      <<>> }

OBJECT_IDS == { <<"R", "1">>, <<"w", "d", ":", "Q", "1">> }

OBJECT_CLASSES == { "resource", "literal", "class" }

PREDICATE_LABELS == { <<"s", "o", "u", "r", "c", "e", " ", "c", "o", "d", "e">>, <<"r", "e", "s", "u", "l", "t">> }

\* The dict d without the keys outside keys.
only(d, keys) == [k \in keys |-> d[k]]

OBJECTS ==
    { only([id |-> i, label |-> l, _class |-> c], keys) :
        i \in OBJECT_IDS, l \in OBJECT_LABELS, c \in OBJECT_CLASSES,
        keys \in SUBSET {"id", "label", "_class"} }

PREDICATES ==
    { only([id |-> <<"P", "1">>, label |-> l], keys) :
        l \in PREDICATE_LABELS, keys \in SUBSET {"id", "label"} }

RAW_STATEMENTS ==
    { only([predicate |-> pr, object |-> ob], keys) :
        pr \in PREDICATES, ob \in OBJECTS,
        keys \in SUBSET {"predicate", "object"} }

InitClassify ==
    /\ stmt \in RAW_STATEMENTS
    /\ prop = Unset
    /\ category = "idle"
    /\ CollectorIdle
    /\ EvaluatorIdle
    /\ TierIdle
    /\ RunIdle

\* prop = process_property(stmt)
ProcessProperty ==
    /\ stmt # Unset
    /\ prop = Unset
    /\ prop' = process_property(stmt)
    /\ UNCHANGED << cvars, evars, tvars, rvars, stmt, category >>

\* get_property_category(prop)
Categorise ==
    /\ prop # Unset
    /\ category = "idle"
    /\ category' = get_property_category(prop)
    /\ UNCHANGED << cvars, evars, tvars, rvars, stmt, prop >>

NextClassify ==
    \/ ProcessProperty
    \/ Categorise

SpecClassify == InitClassify /\ [][NextClassify]_vars

(***************************************************************************)
(* get_tier, called with a score given in tenths, beside the calls         *)
(* evaluate_contribution makes of it.                                      *)
(***************************************************************************)
\* The highest score given, in tenths.
MaxTenths == 1000

\* The scores 0.0 to 100.0 in tenths, and the floats next below 40.0, 60.0
\* and 80.0.
SCORES ==
    {[num |-> n, den |-> 10] : n \in 0..MaxTenths}
        \cup {[num |-> bound, den |-> 1, ulps |-> -1] : bound \in {40, 60, 80}}

InitGetTier ==
    /\ given_score \in SCORES
    /\ tier = "idle"
    /\ CollectorIdle
    /\ EvaluatorIdle
    /\ ClassifierIdle
    /\ RunIdle

\* tier = get_tier(score)
GetTier ==
    /\ given_score # Unset
    /\ tier = "idle"
    /\ tier' = get_tier(given_score)
    /\ UNCHANGED << cvars, evars, kvars, rvars, given_score >>

InitTier == InitGetTier \/ InitEval

NextTier ==
    \/ GetTier
    \/ BeginProperty
    \/ HeadReply
    \/ GetReply
    \/ Linkability
    \/ LookupReply
    \/ AppendScores
    \/ Finish

SpecTier == InitTier /\ [][NextTier]_vars

(***************************************************************************)
(* run_evaluation: evaluate_contribution for each contribution of the      *)
(* dataset, then calc_stats.  Of the statistics the model keeps the        *)
(* counts, and for each pillar the list of values its summary (mean, std,  *)
(* median, min, max) is computed from.                                     *)
(***************************************************************************)
\* A contribution of a dataset with the properties l.
contribution_with(l) ==
    [contribution_id |-> <<"R", "2">>, paper_id |-> <<"R", "1">>,
     paper_title |-> <<"T">>, reproducibility_properties |-> l]

RUN_CONTRIBUTIONS ==
    { EmptyDict, contribution_with(<<>>), contribution_with(<<PropLiteral>>),
      contribution_with(<<PropEmpty>>), contribution_with(<<PropInternal>>),
      contribution_with(<<PropZenodo>>) }

DATASETS ==
    {<<>>} \cup {<<c>> : c \in RUN_CONTRIBUTIONS}
           \cup {<<c, d>> : c \in RUN_CONTRIBUTIONS, d \in RUN_CONTRIBUTIONS}

\* statistics.mean raises StatisticsError on an empty list.
StatisticsError == [raised |-> "StatisticsError"]

\* all_props = [p for r in results for p in r.properties]
RECURSIVE all_props_in(_)
all_props_in(rs) ==
    IF rs = <<>>
    THEN <<>>
    ELSE all_props_in(SubSeq(rs, 1, Len(rs) - 1)) \o rs[Len(rs)].properties

\* sum(1 for x in list if test(x)), for the test given as the set of the
\* indices that pass it.
count_of(passing) == Cardinality(passing)

calc_stats(rs) ==
    IF rs = <<>>
    THEN StatisticsError
    ELSE LET all == all_props_in(rs)
             urls == {k \in 1..Len(all) : all[k].property_type = "url"}
             resources == {k \in 1..Len(all) : all[k].property_type = "resource"}
             literals == {k \in 1..Len(all) : all[k].property_type = "literal"}
             repos == {k \in urls : Truthy(all[k].repo_type)}
         IN  [ total_contributions |-> Len(rs),
               pillars |->
                 [ availability |-> [k \in 1..Len(rs) |-> rs[k].availability],
                   accessibility |-> [k \in 1..Len(rs) |-> rs[k].accessibility],
                   linkability |-> [k \in 1..Len(rs) |-> rs[k].linkability],
                   license |-> [k \in 1..Len(rs) |-> rs[k].license],
                   overall |-> [k \in 1..Len(rs) |-> rs[k].overall] ],
               tiers |->
                 [ excellent |-> count_of({k \in 1..Len(rs) : rs[k].tier = "Excellent"}),
                   good |-> count_of({k \in 1..Len(rs) : rs[k].tier = "Good"}),
                   fair |-> count_of({k \in 1..Len(rs) : rs[k].tier = "Fair"}),
                   poor |-> count_of({k \in 1..Len(rs) : rs[k].tier = "Poor"}) ],
               properties |->
                 [ total |-> Len(all),
                   urls |-> count_of(urls),
                   resources |-> count_of(resources),
                   literals |-> count_of(literals),
                   repos |-> count_of(repos) ],
               url_accessibility |->
                 [ total |-> count_of(urls),
                   accessible |-> count_of({k \in urls : all[k].accessibility = 100}) ],
               resource_linkability |->
                 [ total |-> count_of(resources),
                   linked |-> count_of({k \in resources : all[k].linkability = 100}) ],
               repo_license |->
                 [ total |-> count_of(repos),
                   licensed |-> count_of({k \in repos : all[k].license = 100}) ] ]

InitRun ==
    /\ contribs \in DATASETS
    /\ run_index = 0
    /\ results = <<>>
    /\ stats = Unset
    /\ epc = "next"
    /\ contrib = EmptyDict
    /\ check_access \in BOOLEAN
    /\ check_lic \in BOOLEAN
    /\ position = 0
    /\ cur = Unset
    /\ calls = <<>>
    /\ answers = <<>>
    /\ avail_scores = <<>>
    /\ access_scores = <<>>
    /\ link_scores = <<>>
    /\ lic_scores = <<>>
    /\ evals = <<>>
    /\ result = Unset
    /\ CollectorIdle
    /\ ClassifierIdle
    /\ TierIdle

\* The for loop reaches a contribution and calls evaluate_contribution.
NextContribution ==
    /\ epc = "next"
    /\ run_index < Len(contribs)
    /\ contrib' = contribs[run_index + 1]
    /\ run_index' = run_index + 1
    /\ position' = 0
    /\ cur' = Unset
    /\ calls' = <<>>
    /\ answers' = <<>>
    /\ avail_scores' = <<>>
    /\ access_scores' = <<>>
    /\ link_scores' = <<>>
    /\ lic_scores' = <<>>
    /\ evals' = <<>>
    /\ result' = Unset
    /\ epc' = "property"
    /\ UNCHANGED << cvars, kvars, tvars, check_access, check_lic, contribs,
                    results, stats >>

\* results.append(r)
AppendResult ==
    /\ epc = "done"
    /\ results' = Append(results, result)
    /\ epc' = "next"
    /\ UNCHANGED << cvars, kvars, tvars, contrib, check_access, check_lic,
                    position, cur, calls, answers, avail_scores, access_scores,
                    link_scores, lic_scores, evals, result, contribs,
                    run_index, stats >>

\* The for loop is over: return results, calc_stats(results).
CalcStats ==
    /\ epc = "next"
    /\ run_index = Len(contribs)
    /\ stats' = calc_stats(results)
    /\ epc' = IF results = <<>> THEN "raised" ELSE "returned"
    /\ UNCHANGED << cvars, kvars, tvars, contrib, check_access, check_lic,
                    position, cur, calls, answers, avail_scores, access_scores,
                    link_scores, lic_scores, evals, result, contribs,
                    run_index, results >>

(***************************************************************************)
(* The two programs side by side: a run of collect_contributions, or a run *)
(* of run_evaluation on a dataset.                                         *)
(***************************************************************************)
InitTools == Init \/ InitRun

NextTools ==
    \/ Return
    \/ FetchPage
    \/ PageFailed
    \/ PageEmpty
    \/ PageOpened
    \/ EndOfPage
    \/ NextPaper
    \/ EndOfPaper
    \/ FetchBundle
    \/ SkipNoStatements
    \/ SkipNoReproProps
    \/ Reject
    \/ Accept
    \/ NextContribution
    \/ BeginProperty
    \/ HeadReply
    \/ GetReply
    \/ Linkability
    \/ LookupReply
    \/ AppendScores
    \/ Finish
    \/ AppendResult
    \/ CalcStats

SpecTools == InitTools /\ [][NextTools]_vars


(***************************************************************************)
(* save_contributions recomputes the distribution from the accepted list:  *)
(* for c in contributions: for p in c.get("reproducibility_properties",    *)
(* []): type_counts[get_property_category(p)] += 1                         *)
(***************************************************************************)
RECURSIVE distribution_of(_, _)
distribution_of(list, kinds) ==
    IF kinds = {}
    THEN ZERO_COUNTS
    ELSE LET c == CHOOSE k \in kinds : TRUE
             rest == distribution_of(list, kinds \ {c})
             own == count_contribution_types(Get(c, "reproducibility_properties", <<>>))
         IN  [cat \in CATEGORIES |-> rest[cat] + list[c] * own[cat]]

property_distribution(list) == distribution_of(list, BagToSet(list))

(***************************************************************************)
(* The claims about the collector.                                         *)
(***************************************************************************)

\* The step accepts a contribution.
Accepts == BagCardinality(contributions') = BagCardinality(contributions) + 1

\* The relevant properties of the contribution whose bundle is being handled.
examined_repro_props == repro_props_of(all_props_of(statements_of(reply)))

\* C1: the number of accepted contributions never exceeds max_contributions,
\* in any state of the collection (mid-page and mid-paper included) and so in
\* the returned list.
C1_CapNeverExceeded == len_contributions <= max_contributions

\* The cap is reached in the middle of a paper, with contributions still to come.
C1_Witness ==
    /\ max_contributions > 0
    /\ len_contributions = max_contributions
    /\ pc = "contribs"
    /\ contribs_left > 0
    /\ papers_left > 0

\* A measure of the work left: the pages up to the limit, and within the page
\* the papers and contributions the loops have not reached.
Width == 2 * MaxContribs + 3

PageWeight == (MaxPapers + 1) * Width + 2

Rank ==
    IF pc = "done"
    THEN 0
    ELSE 1 + (max_pages - page) * PageWeight
           + CASE pc = "loop" -> (MaxPapers + 1) * Width + 1
               [] pc = "page_fetched" -> (MaxPapers + 1) * Width
               [] pc = "papers" -> papers_left * Width
               [] pc = "contribs" -> papers_left * Width + 2 * contribs_left + 1
               [] pc = "bundle_fetched" -> papers_left * Width + 2 * contribs_left + 2

\* C2: the collection terminates after finitely many pages.  Every step
\* strictly decreases a measure that is a natural number; every iteration of
\* the while loop that comes back to its test has advanced the page index by
\* one, which never passes the page limit; and the function returns only on
\* balance, on the cap, on an empty or failed page, or at the page limit.
C2_Terminates ==
    [][ /\ Rank' < Rank
        /\ Rank' >= 0
        /\ pc' = "loop" => page' = page + 1 /\ page' <= max_pages
        /\ pc' # "loop" => page' = page
        /\ pc' = "done" =>
              \/ is_balanced(type_counts', min_per_type')
              \/ BagCardinality(contributions') >= max_contributions'
              \/ page' >= max_pages
              \/ reply' = NoneDict
              \/ reply' = [content |-> 0] ]_vars

\* The page limit ends a collection whose target is out of reach and whose
\* source never returned an empty page.
C2_Witness ==
    /\ pc = "done"
    /\ page = max_pages
    /\ reply = Unset
    /\ ~is_balanced(type_counts, min_per_type)
    /\ len_contributions < max_contributions

\* The cursor of the collection never moves back: a contribution the loops
\* have passed is not looked at again.
CursorAdvances ==
    /\ page' >= page
    /\ pc # "page_fetched" => papers_left' <= papers_left
    /\ pc # "papers" => contribs_left' <= contribs_left

\* C3: the acceptance policy.  A contribution with a relevant property is
\* accepted whenever at most 50 are accepted already; with more than 50, an
\* accepted contribution has a property of a category whose counter is below
\* min_per_type; a contribution that is not accepted leaves the collection as
\* it was and is never examined again.
C3_AcceptancePolicy ==
    [][ /\ CursorAdvances
        /\ pc = "bundle_fetched" =>
              LET own == count_contribution_types(examined_repro_props)
              IN  /\ examined_repro_props # <<>> /\ len_contributions <= 50
                         => Accepts
                  /\ len_contributions > 50 /\ Accepts
                         => \E cat \in CATEGORIES :
                                own[cat] > 0 /\ type_counts[cat] < min_per_type
                  /\ ~Accepts => /\ contributions' = contributions
                                 /\ type_counts' = type_counts
                                 /\ pc' = "contribs" ]_vars

\* A contribution was accepted after the bootstrap: 51 were accepted before it.
C3_Witness ==
    /\ len_contributions = 52
    /\ pc = "contribs"

\* C4: the scan stops as soon as the counters are balanced.  In a balanced
\* state no request is sent (no page, no bundle: nothing more is examined) and
\* nothing is accepted; so every acceptance starts from a state with a
\* category below target.
C4_StopsWhenBalanced ==
    [][ /\ is_balanced(type_counts, min_per_type) =>
              /\ pc' \notin {"page_fetched", "bundle_fetched"}
              /\ ~Accepts
              /\ contributions' = contributions
        /\ Accepts => \E cat \in CATEGORIES : type_counts[cat] < min_per_type ]_vars

\* The balance is reached in the middle of a paper and a page.
C4_Witness ==
    /\ min_per_type > 0
    /\ is_balanced(type_counts, min_per_type)
    /\ pc = "contribs"
    /\ contribs_left > 0
    /\ papers_left > 0

\* C5: the counters are those of the accepted list.  In every state each
\* counter is the number of relevant properties of its category over the
\* accepted contributions, as save_contributions recomputes it; a step that
\* accepts nothing changes neither the list nor a counter.
C5_CountersMatchAccepted ==
    [][ /\ type_counts = property_distribution(contributions)
        /\ type_counts' = property_distribution(contributions')
        /\ ~Accepts => contributions' = contributions /\ type_counts' = type_counts
        /\ Accepts => type_counts' # type_counts ]_vars

\* The collection has returned several contributions of unlike kinds.
C5_Witness ==
    /\ pc = "done"
    /\ len_contributions >= 3
    /\ Cardinality(BagToSet(contributions)) >= 2
    /\ type_counts = property_distribution(contributions)

\* A make_request that returned None is being handled.
FailedCall == pc \in {"page_fetched", "bundle_fetched"} /\ reply = NoneDict

\* C6 as stated: no failed call ends the collection; the contributions and
\* pages after it are still fetched.
C6_FailureNeverEndsCollection ==
    [][FailedCall => pc' \in {"loop", "papers", "contribs"}]_vars

\* C6 as amended: a failed bundle request skips that contribution only, and
\* the loops go on from where they were; a failed page request raises nothing,
\* ends the collection and returns the contributions accepted so far.
C6_FailureDegrades ==
    [][ /\ pc = "bundle_fetched" /\ reply = NoneDict =>
              /\ pc' = "contribs"
              /\ UNCHANGED << contributions, type_counts, page, papers_left,
                              contribs_left >>
        /\ pc = "page_fetched" /\ reply = NoneDict =>
              /\ pc' = "done"
              /\ UNCHANGED << contributions, type_counts, page >> ]_vars

\* A bundle request has failed in the middle of a paper, after acceptances.
C6_Witness ==
    /\ pc = "bundle_fetched"
    /\ reply = NoneDict
    /\ contribs_left > 0
    /\ len_contributions > 0

(***************************************************************************)
(* The claims about the scorer and the aggregator.                         *)
(***************************************************************************)
\* The GitHub link of the scenario resolved and its lookup found the MIT license.
ScenarioRan ==
    /\ epc = "done"
    /\ props = SCENARIO
    /\ check_access
    /\ check_lic
    /\ evals[1].accessibility_reason = <<"V", "a", "l", "i", "d", ":", " ", "H", "T", "T", "P", " ", "2", "0", "0">>
    /\ evals[1].license_reason = <<"V", "a", "l", "i", "d", ":", " ", "L", "i", "c", "e", "n", "s", "e", ":", " ", "M", "I", "T", " ", "L", "i", "c", "e", "n", "s", "e">>

\* C7 as stated: the contribution with a GitHub repository URL that is
\* reachable and licensed MIT, a resource linked to wikidata, the internal
\* resource R123 and the literal "v1.0", evaluated with both live checks, gets
\* Availability 100, Accessibility 100, Linkability 75 from the scores
\* [100, 100, 0, 100], License 100, the overall score 93.75 and the tier
\* Excellent.
C7_ScenarioUntrimmed ==
    ScenarioRan =>
        /\ result.availability = [num |-> 100, den |-> 1]
        /\ result.accessibility = [num |-> 100, den |-> 1]
        /\ link_scores = <<100, 100, 0, 100>>
        /\ result.linkability = [num |-> 75, den |-> 1]
        /\ result.license = [num |-> 100, den |-> 1]
        /\ result.overall = [num |-> 375, den |-> 4]
        /\ result.tier = "Excellent"

\* C7, amended: the same contribution gets the Linkability scores
\* [100, 100, 0, 100], and since they are four the trimmed mean drops the 0
\* and one 100: Linkability is 100, as are Availability, Accessibility and
\* License, the overall score is 100 and the tier is Excellent.
C7_Scenario ==
    ScenarioRan =>
        /\ result.num_properties = 4
        /\ avail_scores = <<100, 100, 100, 100>>
        /\ access_scores = <<100, 100, 100, 100>>
        /\ link_scores = <<100, 100, 0, 100>>
        /\ lic_scores = <<100, 100, 100, 100>>
        /\ result.availability = [num |-> 100, den |-> 1]
        /\ result.accessibility = [num |-> 100, den |-> 1]
        /\ result.linkability = [num |-> 100, den |-> 1]
        /\ result.license = [num |-> 100, den |-> 1]
        /\ result.overall = [num |-> 100, den |-> 1]
        /\ result.tier = "Excellent"

C7_Witness ==
    /\ ScenarioRan
    /\ evals[1].license_name = <<"M", "I", "T", " ", "L", "i", "c", "e", "n", "s", "e">>
    /\ evals[3].linkability_reason = TXT_INTERNAL \o <<"R", "1", "2", "3">>
    /\ result.tier = "Excellent"

\* The lowest and the highest score of a non-empty list.
lowest(scores) ==
    CHOOSE x \in {scores[k] : k \in 1..Len(scores)} :
        \A k \in 1..Len(scores) : x <= scores[k]

highest(scores) ==
    CHOOSE x \in {scores[k] : k \in 1..Len(scores)} :
        \A k \in 1..Len(scores) : x >= scores[k]

\* m is the mean of the scores left when one instance of the lowest and one
\* instance of the highest score are removed from a list of four or more: the
\* scores left are two fewer and sum to the total less the two removed.
is_trimmed_mean(m, scores) ==
    m.num * (Len(scores) - 2)
        = (sum(scores) - lowest(scores) - highest(scores)) * m.den

\* m is the arithmetic mean of all the scores.
is_plain_mean(m, scores) == m.num * Len(scores) = sum(scores) * m.den

\* m is what the claim says of the pillar mean of the scores.
is_pillar_mean(m, scores) ==
    /\ m.den > 0
    /\ Len(scores) = 0 => m = [num |-> 100, den |-> 1]
    /\ Len(scores) \in 1..3 => is_plain_mean(m, scores)
    /\ Len(scores) >= 4 => is_trimmed_mean(m, scores)

\* C8: each pillar mean of a returned evaluation is 100 for an empty score
\* list, the plain mean of a list of one to three scores, and for four or more
\* scores the mean of the list without one instance of its lowest and one of
\* its highest score (one copy only when the extreme is duplicated).
C8_TrimmedMean ==
    epc = "done" =>
        /\ is_pillar_mean(result.availability, avail_scores)
        /\ is_pillar_mean(result.accessibility, access_scores)
        /\ is_pillar_mean(result.linkability, link_scores)
        /\ is_pillar_mean(result.license, lic_scores)

\* Two failures and three passes: one of each is removed, 200 / 3 is left.
C8_Witness ==
    /\ epc = "done"
    /\ Len(link_scores) = 5
    /\ Cardinality({k \in 1..5 : link_scores[k] = 0}) = 2
    /\ result.linkability = [num |-> 200, den |-> 3]

\* The requests sent so far for the property being evaluated.
calls_made == {calls[k] : k \in 1..Len(calls)}

\* The pillar scores of a property record e agree with the applicability
\* rules for the property q they were computed from.
applicable_only(q, e) ==
    LET type == Get(q, "property_type", "literal")
        is_repo == type = "url" /\ Get(q, "is_repo_url", FALSE)
    IN  /\ type # "url" =>
              /\ e.accessibility = 100
              /\ startswith(e.accessibility_reason, TXT_INAPPLICABLE)
        /\ type # "resource" => e.linkability = 100
        /\ ~is_repo => e.license = 100
        /\ type = "resource" =>
              /\ e.linkability \in {0, 100}
              /\ e.linkability = 100 <=> Get(q, "is_ontology_linked", FALSE)

\* C9: whatever the toggles and the answers of the network, a property that
\* is no URL scores Accessibility 100 with an "Inapplicable" reason, one that
\* is no resource scores Linkability 100, one that is no repository URL scores
\* License 100, a resource scores Linkability 100 if it is ontology-linked and
\* 0 if not, and no request is sent for a pillar that does not apply.
C9_Applicability ==
    /\ \A k \in 1..Len(evals) : applicable_only(props[k], evals[k])
    /\ epc = "append" => applicable_only(p, property_eval(cur))
    /\ \A c \in calls_made :
          /\ c \in {"HEAD", "GET"} => ptype = "url"
          /\ c = "api_request" => ptype = "url" /\ Get(p, "is_repo_url", FALSE)

\* An internal resource evaluated with both checks on: no request, link 0.
C9_Witness ==
    /\ epc = "append"
    /\ check_access
    /\ check_lic
    /\ ptype = "resource"
    /\ ~Get(p, "is_ontology_linked", FALSE)
    /\ cur.link = 0
    /\ cur.access_r = TXT_INAPPLICABLE_URL
    /\ calls = <<>>

(***************************************************************************)
(* The claims about the classifier.                                        *)
(***************************************************************************)
\* The label and the class process_property reads from the statement.
object_of_stmt == Get(stmt, "object", EmptyDict)

value_is_url ==
    \/ startswith(Get(object_of_stmt, "label", <<>>), HTTP)
    \/ startswith(Get(object_of_stmt, "label", <<>>), HTTPS)

object_is_resource == Get(object_of_stmt, "_class", "literal") = "resource"

\* C10: every statement, with any of its fields missing or empty, gets exactly
\* one property type: url if the value starts with http:// or https://, else
\* resource if the object is a resource, else literal; and every property gets
\* exactly one of the five categories, which refines its type.
C10_ClassificationTotal ==
    /\ prop # Unset =>
          /\ prop.property_type \in {"url", "resource", "literal"}
          /\ prop.property_type = "url" <=> value_is_url
          /\ prop.property_type = "resource" <=> ~value_is_url /\ object_is_resource
          /\ prop.property_type = "literal" <=> ~value_is_url /\ ~object_is_resource
          /\ Cardinality({f \in {"is_url", "is_resource", "is_literal"} : prop[f]}) = 1
          /\ prop.is_url <=> prop.property_type = "url"
          /\ prop.is_resource <=> prop.property_type = "resource"
    /\ category # "idle" =>
          /\ category \in CATEGORIES
          /\ category \in {"url_repo", "url_other"} <=> prop.property_type = "url"
          /\ category \in {"resource_onto", "resource_internal"}
                <=> prop.property_type = "resource"
          /\ category = "literal" <=> prop.property_type = "literal"
          /\ category = "url_repo" <=> prop.property_type = "url" /\ prop.is_repo_url
          /\ category = "resource_onto"
                <=> prop.property_type = "resource" /\ prop.is_ontology_linked

\* A statement without predicate whose object is a resource with a URL label.
C10_Witness ==
    /\ category = "url_other"
    /\ "predicate" \notin DOMAIN stmt
    /\ object_is_resource
    /\ value_is_url
    /\ prop.predicate_label = <<>>

\* The repository patterns that match the value of the statement, by position
\* in REPO_PATTERNS.
matching_patterns ==
    {n \in 1..Len(REPO_PATTERNS) :
        \E i \in 1..Len(Get(object_of_stmt, "label", <<>>)) :
            match_at(Get(object_of_stmt, "label", <<>>), REPO_PATTERNS[n], i)}

\* str.endswith
endswith(s, suffix) ==
    Len(s) >= Len(suffix) /\ SubSeq(s, Len(s) - Len(suffix) + 1, Len(s)) = suffix

\* A statement was classified as a URL that matches a repository pattern.
RepoUrlClassified ==
    /\ prop # Unset
    /\ prop.property_type = "url"
    /\ matching_patterns # {}

\* C11: a URL property whose value matches a repository pattern has
\* is_repo_url true, the repo_type of the first matching pattern in list
\* order, and a non-empty repo_owner and repo_name, the repo_name without
\* trailing ".git".
C11_RepoFields ==
    RepoUrlClassified =>
        /\ prop.is_repo_url
        /\ prop.repo_type = REPO_PATTERNS[Min(matching_patterns)].repo_type
        /\ Truthy(prop.repo_owner)
        /\ Truthy(prop.repo_name)
        /\ ~endswith(prop.repo_name, DOT_GIT)

\* https://github.com/o/.git: the name matched is ".git", and it is stripped
\* to the empty string.
C11_Witness ==
    /\ RepoUrlClassified
    /\ prop.is_repo_url
    /\ prop.repo_type = GITHUB
    /\ prop.repo_name = <<>>

\* The pillar means of the returned evaluation.
pillar_means ==
    << result.availability, result.accessibility, result.linkability,
       result.license >>

\* The float m lies in [0, 100].
in_range(m) ==
    /\ m.den > 0
    /\ m.num >= 0
    /\ double_of(m).int < 100 \/ double_of(m) = binary[100, <<>>]

\* C12: the overall score of a returned evaluation is the unweighted
\* arithmetic mean of its four pillar means, which are not trimmed again, and
\* the overall score and every pillar mean lie in [0, 100].
C12_OverallIsMean ==
    epc = "done" =>
        LET m == pillar_means
            den == m[1].den * m[2].den * m[3].den * m[4].den
            total == m[1].num * (den \div m[1].den) + m[2].num * (den \div m[2].den)
                     + m[3].num * (den \div m[3].den) + m[4].num * (den \div m[4].den)
        IN  /\ result.overall.num * 4 * den = total * result.overall.den
            /\ double_of(result.overall)
                   = rounded[quarter[plus[plus[double_of(m[1]), double_of(m[2])],
                                          plus[double_of(m[3]), double_of(m[4])]]]]
            /\ in_range(result.overall)
            /\ \A k \in 1..4 : in_range(m[k])

\* Three pillars at 100 and Linkability at 0: the overall score is 75.
C12_Witness ==
    /\ epc = "done"
    /\ result.availability = [num |-> 100, den |-> 1]
    /\ result.accessibility = [num |-> 100, den |-> 1]
    /\ result.linkability = [num |-> 0, den |-> 1]
    /\ result.license = [num |-> 100, den |-> 1]
    /\ result.overall = [num |-> 75, den |-> 1]

\* x <= y, for two floats.
not_above(x, y) ==
    \/ x.int < y.int
    \/ /\ x.int = y.int
       /\ LET n == IF Len(x.frac) > Len(y.frac) THEN Len(x.frac) ELSE Len(y.frac)
              f == padded(x.frac, n)
              g == padded(y.frac, n)
              differ == {k \in 1..n : f[k] # g[k]}
          IN  differ = {} \/ f[Min(differ)] = 0

\* The tier the claim gives the float x.
tier_of(x) ==
    CASE x.int >= 80 -> "Excellent"
      [] x.int >= 60 /\ x.int < 80 -> "Good"
      [] x.int >= 40 /\ x.int < 60 -> "Fair"
      [] x.int < 40 -> "Poor"

\* The tiers in ascending order.
tier_rank(t) ==
    CASE t = "Poor" -> 0 [] t = "Fair" -> 1 [] t = "Good" -> 2 [] t = "Excellent" -> 3

\* Each score of SCORES with the float it stands for and the rank of the tier
\* get_tier gives it.
score_floats ==
    {[score |-> score, double |-> double_of(score),
      rank |-> tier_rank(get_tier(score))] : score \in SCORES}

\* C13: get_tier returns Excellent from 80 up, Good from 60 to below 80, Fair
\* from 40 to below 60 and Poor below 40, so a lower score never gets a higher
\* tier; and the tier of every returned evaluation is that of its overall
\* score.
C13_Tiers ==
    /\ tier # "idle" =>
          \A given \in score_floats :
              given.score = given_score =>
                  /\ tier = tier_of(given.double)
                  /\ \A below \in score_floats :
                        not_above(below.double, given.double) =>
                            below.rank <= tier_rank(tier)
    /\ epc = "done" => result.tier = tier_of(double_of(result.overall))

\* The score 80.0 is Excellent: the lower bound is inclusive.
C13_Witness ==
    /\ given_score = [num |-> 800, den |-> 10]
    /\ tier = "Excellent"

\* The pillar scores of a property record e of the property q are those of a
\* skipped check, for each check that is disabled.
skipped_when_disabled(q, e) ==
    LET type == Get(q, "property_type", "literal")
    IN  /\ ~check_access /\ type = "url" =>
              /\ e.accessibility = 100
              /\ e.accessibility_reason = TXT_SKIPPED
        /\ ~check_lic /\ type = "url" /\ Get(q, "is_repo_url", FALSE) =>
              /\ e.license = 100
              /\ e.license_reason = TXT_SKIPPED
              /\ e.license_name = <<>>

\* C14: with a check disabled, its pillar scores 100 with the reason
\* "Skipped" for every property it applies to (Accessibility for a URL,
\* License for a repository URL) and none of its requests is sent, whatever
\* the other toggle says; with both disabled no request is sent at all.
C14_SkippedChecks ==
    /\ \A k \in 1..Len(evals) : skipped_when_disabled(props[k], evals[k])
    /\ epc = "append" => skipped_when_disabled(p, property_eval(cur))
    /\ ~check_access => epc \notin {"head", "get"} /\ calls_made \cap {"HEAD", "GET"} = {}
    /\ ~check_lic => epc # "lookup" /\ "api_request" \notin calls_made
    /\ ~check_access /\ ~check_lic => calls = <<>>

\* A GitHub URL evaluated with both checks disabled.
C14_Witness ==
    /\ epc = "append"
    /\ ~check_access
    /\ ~check_lic
    /\ p = PropGithub
    /\ cur.access = 100
    /\ cur.access_r = TXT_SKIPPED
    /\ cur.lic = 100
    /\ cur.lic_r = TXT_SKIPPED
    /\ calls = <<>>

\* The value v, trimmed of surrounding whitespace, is non-empty and is none of
\* the null-like tokens, compared without regard to case.
is_available(v) ==
    /\ Truthy(v)
    /\ strip(v) # <<>>
    /\ lower(strip(v)) \notin NULL_LIKE

\* The Availability of a property record e of the property q is as claimed.
availability_as_claimed(q, e) ==
    /\ e.availability \in {0, 100}
    /\ e.availability = 100 <=> is_available(Get(q, "value", <<>>))
    /\ e.availability = 0 => e.availability_reason = TXT_NOT_VALID_EMPTY
    /\ applicable_only(q, e)

\* C15: a property of any type scores Availability 100 if its value, trimmed
\* of surrounding whitespace, is non-empty and is none of "n/a", "none" and
\* "null" compared case-insensitively, and otherwise 0 with the reason
\* "Not Valid: empty/null"; the other three pillars follow their own
\* applicability rules whatever the Availability.
C15_Availability ==
    /\ \A k \in 1..Len(evals) : availability_as_claimed(props[k], evals[k])
    /\ epc = "append" => availability_as_claimed(p, property_eval(cur))

\* The value " none" is compared untrimmed with the tokens and scores 100.
C15_Witness ==
    /\ epc = "append"
    /\ value = <<" ", "n", "o", "n", "e">>
    /\ cur.avail = 100
    /\ cur.avail_r = TXT_VALID_HAS_VALUE

\* The relevant properties a contribution of a dataset is evaluated on:
\* contrib.get("reproducibility_properties", []).
relevant_properties(c) == Get(c, "reproducibility_properties", <<>>)

\* The contributions of the dataset, among those already evaluated, that
\* have at least one relevant property.
evaluated_with_properties ==
    {k \in 1..Len(results) : relevant_properties(contribs[k]) # <<>>}

\* C16: a contribution with absent statements or an empty relevant-property
\* list is skipped from scoring without error: the collector never accepts
\* it, and the evaluation produces no scored result for it, so that it is in
\* no pillar statistics and in no tier count.
C16_EmptySkipped ==
    /\ \A c \in BagToSet(contributions) : c.reproducibility_properties # <<>>
    /\ \A k \in 1..Len(results) : results[k].num_properties > 0
    /\ epc = "returned" =>
          /\ stats.total_contributions = Cardinality(evaluated_with_properties)
          /\ Len(stats.pillars.overall) = Cardinality(evaluated_with_properties)
          /\ stats.tiers.excellent + stats.tiers.good + stats.tiers.fair
                 + stats.tiers.poor = Cardinality(evaluated_with_properties)

\* run_evaluation has returned for a dataset whose first contribution has an
\* empty relevant-property list: that contribution has a result, of tier
\* Excellent, and the statistics count it.
C16_Witness ==
    /\ epc = "returned"
    /\ Len(contribs) = 2
    /\ "reproducibility_properties" \in DOMAIN contribs[1]
    /\ relevant_properties(contribs[1]) = <<>>
    /\ relevant_properties(contribs[2]) = <<PropEmpty>>
    /\ results[1].num_properties = 0
    /\ results[1].overall = mean(<<100>>)
    /\ results[1].tier = "Excellent"
    /\ results[2].tier = "Good"
    /\ stats.total_contributions = 2
    /\ stats.tiers.excellent = 1
    /\ Len(stats.pillars.overall) = 2

\* The license identifier in the answer of a lookup: spdx_id of the license
\* of a GitHub repository, id of the license of a Zenodo record.
license_identifier(repo_type, resp) ==
    IF repo_type = GITHUB
    THEN Get(Get(resp, "license", NoneDict), "spdx_id", None)
    ELSE Get(Get(Get(resp, "metadata", EmptyDict), "license", NoneDict), "id", None)

usable_identifier(repo_type, resp) ==
    /\ Truthy(license_identifier(repo_type, resp))
    /\ license_identifier(repo_type, resp) # NOASSERTION

\* The license score of a repository URL evaluated with the license check
\* enabled, as claimed.
license_as_claimed(q, c, sent, received) ==
    IF supported(Get(q, "repo_type", <<>>))
    THEN /\ "api_request" \in sent
         /\ LET resp == received[Len(received)]
            IN  /\ c.lic = 100 <=> usable_identifier(Get(q, "repo_type", <<>>), resp)
                /\ c.lic \in {0, 100}
                /\ resp = NoneDict => c.lic = 0
    ELSE /\ c.lic = 0
         /\ startswith(c.lic_r, TXT_NOT_VALID \o TXT_UNSUPPORTED)
         /\ "api_request" \notin sent

\* C17: with the license check enabled, a repository URL scores License 100
\* iff the lookup for its host returns a usable license identifier other than
\* NOASSERTION, for GitHub and for Zenodo alike; a host of any other type
\* scores 0 with an "Unsupported" reason and no lookup is sent; a failed
\* lookup scores 0.
C17_License ==
    epc = "append" /\ check_lic /\ license_applies
        => license_as_claimed(p, cur, calls_made, answers)

\* A Zenodo record whose license has the identifier NOASSERTION has been
\* looked up, and the License score is 100.
C17_Witness ==
    /\ epc = "append"
    /\ check_lic
    /\ p = PropZenodo
    /\ calls[Len(calls)] = "api_request"
    /\ answers[Len(answers)] = [id |-> 1, metadata |-> [license |-> [id |-> NOASSERTION]]]
    /\ cur.lic = 100
    /\ cur.lic_name = NOASSERTION

\* The part of C17 that holds: GitHub as claimed, other hosts unsupported
\* without a lookup, and a Zenodo record scores 100 iff its metadata has a
\* non-empty license.
C17_LicenseGithub ==
    epc = "append" /\ check_lic /\ license_applies
        => IF Get(p, "repo_type", <<>>) = ZENODO
           THEN LET resp == answers[Len(answers)]
                IN  /\ "api_request" \in calls_made
                    /\ cur.lic = 100 <=>
                          TruthyDict(Get(Get(resp, "metadata", EmptyDict), "license", NoneDict))
                    /\ resp = NoneDict => cur.lic = 0
           ELSE license_as_claimed(p, cur, calls_made, answers)

\* check_url is being run, or has been run, for the property in hand.
probing ==
    /\ epc \in {"head", "get", "linkability", "lookup", "append"}
    /\ check_access
    /\ ptype = "url"

\* The requests check_url has sent so far.
probes == SelectSeq(calls, LAMBDA c : c \in {"HEAD", "GET"})

succeeded(answer) == answer.kind = "response"

\* C18: with the accessibility check enabled, check_url sends a HEAD request
\* first; a GET request is sent only after the HEAD request was answered with
\* 405, and only once; the property scores 100 iff the HEAD request
\* succeeded, or it was answered with 405 and the GET request succeeded;
\* every other outcome scores 0 with a reason, and the evaluation goes on.
C18_ProbeProtocol ==
    probing =>
       /\ probes \in { <<"HEAD">>, <<"HEAD", "GET">> }
       /\ SubSeq(calls, 1, Len(probes)) = probes
       /\ probes = <<"HEAD", "GET">> => answers # <<>> /\ answers[1] = HTTP_405
       /\ epc = "head" <=> answers = <<>>
       /\ epc = "get" <=> probes = <<"HEAD", "GET">> /\ Len(answers) = 1
       /\ epc \in {"linkability", "lookup", "append"} =>
             /\ answers[1] = HTTP_405 <=> probes = <<"HEAD", "GET">>
             /\ cur.access = 100 <=>
                   \/ succeeded(answers[1])
                   \/ answers[1] = HTTP_405 /\ succeeded(answers[2])
             /\ cur.access \in {0, 100}
             /\ cur.access = 0 =>
                   /\ startswith(cur.access_r, TXT_NOT_VALID)
                   /\ Len(cur.access_r) > Len(TXT_NOT_VALID)

\* The HEAD request was answered with 405 and the GET request failed: the
\* score is 0, the reason names the 405, and the evaluation has gone on.
C18_Witness ==
    /\ probing
    /\ epc = "append"
    /\ calls = <<"HEAD", "GET">>
    /\ answers = << HTTP_405, [kind |-> "HTTPError", code |-> 404] >>
    /\ cur.access = 0
    /\ cur.access_r = TXT_NOT_VALID \o TXT_HTTP \o str_of_int(405)

\* C19: the flags of a property are consistent: is_repo_url only on a url,
\* is_ontology_linked only on a resource; an object of class resource whose
\* label starts with http:// or https:// is a url that is not ontology
\* linked, its ontology source never looked up; so no property is both a
\* repository URL and ontology linked, and its category says the same.
C19_FlagsConsistent ==
    /\ prop # Unset =>
          /\ prop.is_repo_url => prop.property_type = "url"
          /\ prop.is_ontology_linked => prop.property_type = "resource"
          /\ object_is_resource /\ value_is_url =>
                /\ prop.property_type = "url"
                /\ ~prop.is_ontology_linked
                /\ prop.ontology_source = None
          /\ ~(prop.is_repo_url /\ prop.is_ontology_linked)
    /\ category # "idle" =>
          /\ category = "url_repo" <=> prop.is_repo_url
          /\ category = "resource_onto" <=> prop.is_ontology_linked

\* A resource labelled with a Wikidata URL, its identifier a Wikidata one
\* too, is classified: a url, not ontology linked.
C19_Witness ==
    /\ prop # Unset
    /\ category = "url_other"
    /\ object_is_resource
    /\ Get(object_of_stmt, "label", <<>>) = <<"h", "t", "t", "p", ":", "/", "/", "w", "w", "w", ".", "w", "i", "k", "i", "d", "a", "t", "a", ".", "o", "r", "g", "/", "e", "n", "t", "i", "t", "y", "/", "Q", "1">>
    /\ get_ontology_source(prop.object_id, prop.value) # None
    /\ prop.property_type = "url"
    /\ ~prop.is_ontology_linked
    /\ ~prop.is_repo_url

\* The number of failures in a list of scores.
zeros(scores) == Cardinality({k \in 1..Len(scores) : scores[k] = 0})

\* The pillar mean m of the scores of n >= 4 properties, of which k fail and
\* the others pass, 1 <= k <= n - 1, is 100 * (n - k - 1) / (n - 2).
masks_one_failure(m, scores) ==
    LET n == Len(scores)
        k == zeros(scores)
    IN  /\ n >= 4
        /\ \A j \in 1..n : scores[j] \in {0, 100}
        /\ 1 <= k
        /\ k <= n - 1
        => /\ m = fraction(100 * (n - k - 1), n - 2)
           /\ k = 1 => m = fraction(100, 1)

\* C20: the trimmed mean masks one failure: for a contribution with four or
\* more properties whose scores on a pillar are all 0 or 100, the pillar mean
\* is 100 when exactly one of them is 0, and with k zeros among n scores,
\* 1 <= k <= n - 1, it is 100 * (n - k - 1) / (n - 2).
C20_Masking ==
    epc = "done" =>
        /\ masks_one_failure(result.availability, avail_scores)
        /\ masks_one_failure(result.accessibility, access_scores)
        /\ masks_one_failure(result.linkability, link_scores)
        /\ masks_one_failure(result.license, lic_scores)

\* Five properties, one of them without a value: its Availability failure
\* is trimmed away and the pillar mean is 100.
C20_Witness ==
    /\ epc = "done"
    /\ Len(avail_scores) = 5
    /\ zeros(avail_scores) = 1
    /\ avail_scores[3] = 0
    /\ result.availability = fraction(100, 1)
    /\ result.num_properties = 5

\* C21: over any run of the collector no category counter ever decreases, so
\* a category that has reached min_per_type stays satisfied; and every
\* contribution accepted when more than 50 are accepted already strictly
\* increases a counter that was below min_per_type when it was accepted.
C21_CountersProgress ==
    [][ /\ min_per_type' = min_per_type
        /\ \A cat \in CATEGORIES :
              /\ type_counts'[cat] >= type_counts[cat]
              /\ type_counts[cat] >= min_per_type => type_counts'[cat] >= min_per_type
        /\ Accepts /\ len_contributions > BOOTSTRAP =>
              \E cat \in CATEGORIES :
                  /\ type_counts[cat] < min_per_type
                  /\ type_counts'[cat] > type_counts[cat] ]_vars

\* After the bootstrap a contribution was accepted that raised the counters
\* still short of min_per_type, the satisfied ones keeping their counts.
C21_Witness ==
    /\ pc = "contribs"
    /\ len_contributions = BOOTSTRAP + 2
    /\ min_per_type = 2
    /\ type_counts["literal"] > BOOTSTRAP
    /\ type_counts["url_repo"] > BOOTSTRAP
    /\ type_counts["url_other"] = 1
    /\ type_counts["resource_onto"] = 1
    /\ ~is_balanced(type_counts, min_per_type)

====
